---- MODULE Spec2Model ----
(***************************************************************************)
(* Statistics reconciliation engine of the EyeOnWater integration:         *)
(* conversion of absolute meter readings into cumulative-sum rows, the     *)
(* carry-forward repair of rows written by the recorder's own compiler,    *)
(* backfill base selection and the import orchestration of one device.     *)
(*                                                                         *)
(* Conventions.  Instants are integers counting seconds; every stored row  *)
(* starts on an hour boundary (a multiple of HOUR).  Readings and sums are *)
(* integers (the code's floats; only their order, sums and differences     *)
(* matter).  A Python value that may be None is an Opt: None is the empty   *)
(* sequence and a present value v is the one-element sequence <<v>>.       *)
(***************************************************************************)
EXTENDS Integers, Sequences, FiniteSets, TLC

VARIABLES
    store,      \* consumption series of the device: start -> [state, sum, by]
    cost,       \* cost series of the device: start -> [state, sum, by]
    mem,        \* EyeOnWaterUnifiedSensor._last_imported_time (Opt)
    native,     \* EyeOnWaterUnifiedSensor._attr_native_value (Opt)
    api,        \* meter.last_historical_data: sequence of data points
    price_entity, \* whether the price entity option is configured
    ev,         \* trace of the last operation (what it did, for the properties)
    budget,     \* external writes the bounded model still allows
    call        \* a single call of a helper function: arguments and result

vars == <<store, cost, mem, native, api, price_entity, ev, budget, call>>

-----------------------------------------------------------------------------
(* Bounds of the model. *)

MaxHour == 3          \* hour slots 0..MaxHour of the stored series
MaxReading == 2       \* meter readings 0..MaxReading
MaxLen == 3           \* longest reading sequence handed to a conversion
MaxSlot == 2          \* hour slots 0..MaxSlot of the engine's series
MaxMeter == 1         \* readings 0..MaxMeter the engine's API returns
MaxFetch == 2         \* longest history one fetch of the API returns
MaxWrites == 1        \* external (compiler) writes in one behaviour
MaxShort == 1         \* short-term rows of the series at a reset
BatchSize == 2        \* rows per audit query (STATISTICS_VALIDATION_BATCH_SIZE, scaled)
MaxTasks == 2         \* tasks of one device that have not returned
MaxPolls == 3         \* coordinator refreshes in one stepwise behaviour
MaxCrashes == 1       \* stops of the process in one stepwise behaviour
NumMeters == 2        \* meters of the account

(* Program constants. *)

HOUR == 3600          \* datetime.timedelta(hours=1)
SECOND == 1           \* datetime.timedelta(seconds=1)
LOOKBACK_DAYS == 365  \* look-back of async_get_stat_just_before
EPS_SCALE == 100      \* the tolerance 0.01 is 1 / EPS_SCALE

-----------------------------------------------------------------------------
(* Optional values. *)

None == <<>>
Some(v) == <<v>>
IsNone(o) == o = <<>>
Val(o) == o[1]

Hours == 0..MaxHour
Times == {h * HOUR : h \in Hours}
Readings == 0..MaxReading

Max(a, b) == IF a >= b THEN a ELSE b
Min(a, b) == IF a <= b THEN a ELSE b
Abs(a) == IF a >= 0 THEN a ELSE 0 - a

DataPoint(t, r) == [dt |-> t, reading |-> r]

-----------------------------------------------------------------------------
(* pyonwater helpers used by the conversion and the filter. *)

RECURSIVE MonotonicFrom(_, _, _)
MonotonicFrom(points, i, last_value) ==
    IF i > Len(points) THEN <<>>
    ELSE LET value == IF points[i].reading < last_value
                      THEN last_value ELSE points[i].reading
         IN  <<DataPoint(points[i].dt, value)>>
                 \o MonotonicFrom(points, i + 1, value)

\* enforce_monotonic_total(points, clamp_min=None): a backward jump is clamped
\* to the previous (already clamped) value; length and timestamps are kept.
enforce_monotonic_total(points) ==
    IF points = <<>> THEN <<>>
    ELSE MonotonicFrom(points, 1, points[1].reading)

\* Mutant: a point at `since` is kept.
filter_points_after_inclusive(points, since) ==
    SelectSeq(points, LAMBDA p : p.dt >= since)

\* filter_points_after(points, since): the points strictly after since.
filter_points_after(points, since) ==
    SelectSeq(points, LAMBDA p : p.dt > since)

-----------------------------------------------------------------------------
(* statistic_helper.convert_statistic_data *)

StatisticData(t, st, sm) == [start |-> t, state |-> st, sum |-> sm]

\* `x or 0.0` on an Optional[float]: None and 0.0 both give 0.0.
OrZero(o) == IF IsNone(o) THEN 0 ELSE Val(o)

RECURSIVE ConvertLoop(_, _, _, _)
ConvertLoop(normalized_data, i, previous_reading, cumulative_sum) ==
    IF i > Len(normalized_data) THEN <<>>
    ELSE LET row == normalized_data[i]
             consumption == row.reading - previous_reading
             cum == cumulative_sum + consumption
         IN  <<StatisticData(row.dt, row.reading, cum)>>
                 \o ConvertLoop(normalized_data, i + 1, row.reading, cum)

\* Mutant: the previous reading defaults to 0.0 instead of the first reading.
convert_statistic_data_prev_zero(data, last_sum, last_reading) ==
    LET normalized_data == enforce_monotonic_total(data)
        previous_reading ==
            IF ~IsNone(last_reading) THEN Val(last_reading) ELSE 0
    IN  ConvertLoop(normalized_data, 1, previous_reading, OrZero(last_sum))

\* Mutant: `last_reading or first reading`, so a last reading of 0.0 is lost.
convert_statistic_data_falsy_reading(data, last_sum, last_reading) ==
    LET normalized_data == enforce_monotonic_total(data)
        previous_reading ==
            IF OrZero(last_reading) # 0 THEN Val(last_reading)
            ELSE IF normalized_data # <<>> THEN normalized_data[1].reading
            ELSE 0
    IN  ConvertLoop(normalized_data, 1, previous_reading, OrZero(last_sum))

\* Mutant: the readings are converted without being normalised first.
convert_statistic_data_raw(data, last_sum, last_reading) ==
    LET previous_reading ==
            IF ~IsNone(last_reading) THEN Val(last_reading)
            ELSE IF data # <<>> THEN data[1].reading
            ELSE 0
    IN  ConvertLoop(data, 1, previous_reading, OrZero(last_sum))

\* Mutant: the cumulative sum restarts at 0.
convert_statistic_data_restart_sum(data, last_sum, last_reading) ==
    LET normalized_data == enforce_monotonic_total(data)
        previous_reading ==
            IF ~IsNone(last_reading) THEN Val(last_reading)
            ELSE IF normalized_data # <<>> THEN normalized_data[1].reading
            ELSE 0
    IN  ConvertLoop(normalized_data, 1, previous_reading, 0)

convert_statistic_data(data, last_sum, last_reading) ==
    LET normalized_data == enforce_monotonic_total(data)
        cumulative_sum == OrZero(last_sum)
        previous_reading ==
            IF ~IsNone(last_reading) THEN Val(last_reading)
            ELSE IF normalized_data # <<>> THEN normalized_data[1].reading
            ELSE 0
    IN  ConvertLoop(normalized_data, 1, previous_reading, cumulative_sum)

-----------------------------------------------------------------------------
(* The recorder's long-term statistics table, as the helpers use it.  A      *)
(* series is a function from the start instants that hold a row to the row. *)
(* The field `by` is not a column: it names the writer of the row (import,  *)
(* carry, compiler) so that properties can tell real consumption rows from  *)
(* repair rows.  No operation of the engine reads it.                       *)

EmptySeries == [t \in {} |-> 0]

StoredRow(st, sm, who) == [state |-> st, sum |-> sm, by |-> who]

Starts(rows) == {rows[i].start : i \in DOMAIN rows}

LastIndexAt(rows, t) ==
    CHOOSE i \in DOMAIN rows :
        /\ rows[i].start = t
        /\ \A j \in DOMAIN rows : rows[j].start = t => j <= i

\* recorder.statistics.async_import_statistics: an upsert keyed by the start
\* instant; a row that exists is overwritten, the last row of the batch wins.
async_import_statistics(series, rows, who) ==
    [t \in DOMAIN series \cup Starts(rows) |->
        IF t \in Starts(rows)
        THEN LET r == rows[LastIndexAt(rows, t)]
             IN  StoredRow(Some(r.state), Some(r.sum), who)
        ELSE series[t]]

LastStart(series) == CHOOSE t \in DOMAIN series : \A u \in DOMAIN series : u <= t

\* statistic_helper.get_last_imported_stat: (time, state, sum) of the latest
\* row of the series, (None, None, None) when the series has no row.
get_last_imported_stat(series) ==
    IF DOMAIN series = {} THEN <<None, None, None>>
    ELSE LET t == LastStart(series)
         IN  <<Some(t), series[t].state, series[t].sum>>

\* statistic_helper.async_get_stat_just_before: (state, sum) of the last row
\* in [before_dt - 365 days, before_dt), (None, None) when there is none.
async_get_stat_just_before(series, before_dt) ==
    LET window_start == before_dt - LOOKBACK_DAYS * 24 * HOUR
        entries == {t \in DOMAIN series : window_start <= t /\ t < before_dt}
    IN  IF entries = {} THEN <<None, None>>
        ELSE LET last == CHOOSE t \in entries : \A u \in entries : u <= t
             IN  <<series[last].state, series[last].sum>>

\* statistic_helper.async_get_highest_sum_stat: ORDER BY sum DESC LIMIT 1.
\* The query names no tie-break, so any row holding the greatest sum may be
\* returned; where NULL sorts is left to the database (last in SQLite and
\* MariaDB, first in PostgreSQL), so a row with a NULL sum may be returned
\* whenever one exists.
async_get_highest_sum_stat(series) ==
    LET withSum == {t \in DOMAIN series : ~IsNone(series[t].sum)}
        nulls == DOMAIN series \ withSum
        top == {t \in withSum :
                   \A u \in withSum : Val(series[u].sum) <= Val(series[t].sum)}
    IN  IF DOMAIN series = {} THEN {<<None, None, None>>}
        ELSE {<<Some(t), series[t].state, series[t].sum>> : t \in top \cup nulls}

-----------------------------------------------------------------------------
(* statistic_helper.async_write_carry_forward_stats *)

RECURSIVE CarryRows(_, _, _, _)
CarryRows(current, end, carry_state, carry_sum) ==
    IF current <= end
    THEN <<StatisticData(current, carry_state, carry_sum)>>
             \o CarryRows(current + HOUR, end, carry_state, carry_sum)
    ELSE <<>>

\* Mutant: the first carried hour is from_dt itself.
carry_forward_rows_from_inclusive(from_dt, through_dt, carry_state, carry_sum) ==
    CarryRows(from_dt, through_dt + SECOND, carry_state, carry_sum)

\* The rows the helper submits: one per hour from from_dt + 1 h while the
\* hour is not later than through_dt + 1 s.
carry_forward_rows(from_dt, through_dt, carry_state, carry_sum) ==
    CarryRows(from_dt + HOUR, through_dt + SECOND, carry_state, carry_sum)

\* Mutant: rows are inserted only where the series has none, and counted.
async_write_carry_forward_stats_insert_only(series, from_dt, through_dt, carry_state, carry_sum) ==
    LET rows == SelectSeq(
                    carry_forward_rows(from_dt, through_dt, carry_state, carry_sum),
                    LAMBDA r : r.start \notin DOMAIN series)
    IN  IF rows = <<>> THEN [series |-> series, count |-> 0]
        ELSE [series |-> async_import_statistics(series, rows, "carry"),
              count |-> Len(rows)]

\* The helper's effect on the series and its return value.
async_write_carry_forward_stats(series, from_dt, through_dt, carry_state, carry_sum) ==
    LET rows == carry_forward_rows(from_dt, through_dt, carry_state, carry_sum)
    IN  IF rows = <<>> THEN [series |-> series, count |-> 0]
        ELSE [series |-> async_import_statistics(series, rows, "carry"),
              count |-> Len(rows)]

-----------------------------------------------------------------------------
(* statistic_helper: cost conversion, filter, delete, centralized import *)

RECURSIVE CostLoop(_, _, _, _, _)
CostLoop(normalized_data, i, price_per_unit, previous_reading, cumulative_cost) ==
    IF i > Len(normalized_data) THEN <<>>
    ELSE LET row == normalized_data[i]
             consumption == row.reading - previous_reading
             cum == cumulative_cost + consumption * price_per_unit
         IN  <<StatisticData(row.dt, cum, cum)>>
                 \o CostLoop(normalized_data, i + 1, price_per_unit,
                             row.reading, cum)

\* Mutant: the consumption is not multiplied by the price.
convert_cost_statistic_data_unpriced(data, price_per_unit, last_cost_sum, last_reading) ==
    IF data = <<>> THEN <<>>
    ELSE LET normalized_data == enforce_monotonic_total(data)
             previous_reading ==
                 IF ~IsNone(last_reading) THEN Val(last_reading)
                 ELSE normalized_data[1].reading
         IN  CostLoop(normalized_data, 1, 1, previous_reading,
                      OrZero(last_cost_sum))

convert_cost_statistic_data(data, price_per_unit, last_cost_sum, last_reading) ==
    IF data = <<>> THEN <<>>
    ELSE LET normalized_data == enforce_monotonic_total(data)
             previous_reading ==
                 IF ~IsNone(last_reading) THEN Val(last_reading)
                 ELSE normalized_data[1].reading
         IN  CostLoop(normalized_data, 1, price_per_unit, previous_reading,
                      OrZero(last_cost_sum))

filter_newer_data(data, last_imported_time) ==
    IF data = <<>> THEN data
    ELSE IF ~IsNone(last_imported_time)
         THEN filter_points_after(data, Val(last_imported_time))
         ELSE data

\* Mutant: the row at after_dt is deleted too.
async_delete_statistics_after_inclusive(series, after_dt) ==
    [t \in {u \in DOMAIN series : u < after_dt} |-> series[t]]

\* async_delete_statistics_after: the rows starting strictly after after_dt
\* are deleted.
async_delete_statistics_after(series, after_dt) ==
    [t \in {u \in DOMAIN series : u <= after_dt} |-> series[t]]

\* centralized_import_statistics from the conversion on: the rows converted
\* from the base (fresh_last_db_state, fresh_last_db_sum) are upserted, the
\* cost rows too when a price is given.  The result holds the series after
\* the call, the returned (time, state, sum), and the base that was used.
ImportFrom(series, cost_series, data_points, price_per_unit, overlap, fresh_last_db_state, fresh_last_db_sum) ==
    LET first_point_dt == data_points[1].dt
        statistics_dicts == convert_statistic_data(data_points,
                                                   fresh_last_db_sum,
                                                   fresh_last_db_state)
        prev_cost == async_get_stat_just_before(cost_series, first_point_dt)
        cost_dicts ==
            IF IsNone(price_per_unit) THEN <<>>
            ELSE convert_cost_statistic_data(data_points, Val(price_per_unit),
                                             prev_cost[2], fresh_last_db_state)
        last_imported == statistics_dicts[Len(statistics_dicts)]
    IN  [store |-> async_import_statistics(series, statistics_dicts, "import"),
         cost |-> IF cost_dicts = <<>> THEN cost_series
                  ELSE async_import_statistics(cost_series, cost_dicts, "import"),
         result |-> Some(<<last_imported.start, last_imported.state,
                           last_imported.sum>>),
         overlap |-> overlap,
         base |-> <<fresh_last_db_state, fresh_last_db_sum>>,
         rows |-> statistics_dicts]

NothingImported(series, cost_series) ==
    [store |-> series, cost |-> cost_series, result |-> None,
     overlap |-> FALSE, base |-> <<None, None>>, rows |-> <<>>]

\* Mutant: the base is the last row of the series, overlap or not.
centralized_import_statistics_tip_base(series, cost_series, data_points, price_per_unit) ==
    IF data_points = <<>> THEN NothingImported(series, cost_series)
    ELSE LET last == get_last_imported_stat(series)
             overlap == ~IsNone(last[1]) /\ data_points[1].dt <= Val(last[1])
         IN  ImportFrom(series, cost_series, data_points, price_per_unit,
                        overlap, last[2], last[3])

\* Mutant: an overlapping import with no row before it continues from the
\* last row of the series.
centralized_import_statistics_tip_fallback(series, cost_series, data_points, price_per_unit) ==
    IF data_points = <<>> THEN NothingImported(series, cost_series)
    ELSE LET last == get_last_imported_stat(series)
             overlap == ~IsNone(last[1]) /\ data_points[1].dt <= Val(last[1])
             prev == async_get_stat_just_before(series, data_points[1].dt)
             none_before == IsNone(prev[1]) /\ IsNone(prev[2])
         IN  ImportFrom(series, cost_series, data_points, price_per_unit,
                        overlap,
                        IF overlap /\ ~none_before THEN prev[1] ELSE last[2],
                        IF overlap /\ ~none_before THEN prev[2] ELSE last[3])

\* centralized_import_statistics on the two series of the device.
centralized_import_statistics(series, cost_series, data_points, price_per_unit) ==
    IF data_points = <<>> THEN NothingImported(series, cost_series)
    ELSE
    LET last == get_last_imported_stat(series)
        last_db_stat_time == last[1]
        first_point_dt == data_points[1].dt
        overlap == ~IsNone(last_db_stat_time)
                   /\ first_point_dt <= Val(last_db_stat_time)
        prev == async_get_stat_just_before(series, first_point_dt)
    IN  ImportFrom(series, cost_series, data_points, price_per_unit, overlap,
                   IF overlap THEN prev[1] ELSE last[2],
                   IF overlap THEN prev[2] ELSE last[3])

-----------------------------------------------------------------------------
(* sensor.EyeOnWaterUnifiedSensor.  w is the state the methods act on: the   *)
(* two series and the entity's _last_imported_time (mem) and                 *)
(* _attr_native_value (native).                                              *)

World(st, cs, m, nat) == [store |-> st, cost |-> cs, mem |-> m, native |-> nat]

\* abs(a - b) > 0.01
Differs(a, b) == EPS_SCALE * Abs(a - b) > 1

\* The state object of the price entity in the state machine.
PriceStates ==
    {[kind |-> "missing"], [kind |-> "unavailable"], [kind |-> "unknown"],
     [kind |-> "text"], [kind |-> "number", value |-> 0],
     [kind |-> "number", value |-> 2]}

\* Mutant: a price of zero is accepted.
resolve_price_per_unit_accepts_zero(configured, state_obj) ==
    IF ~configured THEN None
    ELSE IF state_obj.kind # "number" THEN None
    ELSE IF state_obj.value < 0 THEN None
    ELSE Some(state_obj.value)

resolve_price_per_unit(configured, state_obj) ==
    IF ~configured THEN None
    ELSE IF state_obj.kind \in {"missing", "unavailable", "unknown"} THEN None
    ELSE IF state_obj.kind # "number" THEN None
    ELSE IF state_obj.value <= 0 THEN None
    ELSE Some(state_obj.value)

\* Mutant: the trusted row is the last one strictly before the in-memory
\* time.
repair_db_ahead_baseline_before_time(w, last_stat_time, effective_last_time, last_stat_sum) ==
    LET compiler_sum == last_stat_sum
        just == async_get_stat_just_before(w.store, effective_last_time)
        import_state == just[1]
        import_sum == just[2]
    IN  IF IsNone(import_state) \/ IsNone(import_sum)
        THEN [w |-> w, elt |-> Some(effective_last_time), reading |-> None,
              sum |-> last_stat_sum, repaired |-> FALSE]
        ELSE IF IsNone(compiler_sum)
                \/ Differs(Val(compiler_sum), Val(import_sum))
        THEN [w |-> [w EXCEPT
                       !.store = async_write_carry_forward_stats(
                                     w.store, effective_last_time,
                                     last_stat_time, Val(import_state),
                                     Val(import_sum)).series,
                       !.mem = Some(last_stat_time)],
              elt |-> Some(last_stat_time), reading |-> import_state,
              sum |-> import_sum, repaired |-> TRUE]
        ELSE [w |-> w, elt |-> Some(effective_last_time),
              reading |-> import_state, sum |-> import_sum,
              repaired |-> FALSE]

repair_db_ahead_baseline(w, last_stat_time, effective_last_time, last_stat_sum) ==
    LET compiler_sum == last_stat_sum
        just == async_get_stat_just_before(w.store, effective_last_time + HOUR)
        import_state == just[1]
        import_sum == just[2]
    IN  IF IsNone(import_state) \/ IsNone(import_sum)
        THEN [w |-> w, elt |-> Some(effective_last_time), reading |-> None,
              sum |-> last_stat_sum, repaired |-> FALSE]
        ELSE IF IsNone(compiler_sum)
                \/ Differs(Val(compiler_sum), Val(import_sum))
        THEN [w |-> [w EXCEPT
                       !.store = async_write_carry_forward_stats(
                                     w.store, effective_last_time,
                                     last_stat_time, Val(import_state),
                                     Val(import_sum)).series,
                       !.mem = Some(last_stat_time)],
              elt |-> Some(last_stat_time), reading |-> import_state,
              sum |-> import_sum, repaired |-> TRUE]
        ELSE [w |-> w, elt |-> Some(effective_last_time),
              reading |-> import_state, sum |-> import_sum,
              repaired |-> FALSE]

\* Mutant: the entity's reading is not used.
repair_sum_monotonicity_no_live(w, last_stat_time, last_stat_sum, anchor) ==
    LET anchor_dt == anchor[1]
        anchor_state == anchor[2]
        anchor_sum == anchor[3]
    IN  IF \/ IsNone(anchor_sum)
           \/ EPS_SCALE * Val(anchor_sum) <= EPS_SCALE * last_stat_sum + 1
           \/ IsNone(anchor_dt)
        THEN [w |-> w, elt |-> None, reading |-> None, sum |-> None,
              repaired |-> FALSE]
        ELSE
        LET carry_state == IF ~IsNone(anchor_state) THEN Val(anchor_state) ELSE 0
        IN  [w |-> [w EXCEPT
                      !.store = async_write_carry_forward_stats(
                                    w.store, Val(anchor_dt), last_stat_time,
                                    carry_state, Val(anchor_sum)).series,
                      !.mem = Some(last_stat_time)],
             elt |-> Some(last_stat_time), reading |-> Some(carry_state),
             sum |-> anchor_sum, repaired |-> TRUE]

\* anchor is the row async_get_highest_sum_stat returned.
repair_sum_monotonicity(w, last_stat_time, last_stat_sum, anchor) ==
    LET anchor_dt == anchor[1]
        anchor_state == anchor[2]
        anchor_sum == anchor[3]
    IN  IF \/ IsNone(anchor_sum)
           \/ EPS_SCALE * Val(anchor_sum) <= EPS_SCALE * last_stat_sum + 1
           \/ IsNone(anchor_dt)
        THEN [w |-> w, elt |-> None, reading |-> None, sum |-> None,
              repaired |-> FALSE]
        ELSE
        LET entity_reading == w.native
            live == ~IsNone(entity_reading) /\ ~IsNone(anchor_state)
            correct_sum ==
                IF live
                THEN Val(anchor_sum) + (Val(entity_reading) - Val(anchor_state))
                ELSE Val(anchor_sum)
            carry_state ==
                IF live THEN Val(entity_reading)
                ELSE IF ~IsNone(anchor_state) THEN Val(anchor_state) ELSE 0
        IN  [w |-> [w EXCEPT
                      !.store = async_write_carry_forward_stats(
                                    w.store, Val(anchor_dt), last_stat_time,
                                    carry_state, correct_sum).series,
                      !.mem = Some(last_stat_time)],
             elt |-> Some(last_stat_time), reading |-> Some(carry_state),
             sum |-> Some(correct_sum), repaired |-> TRUE]

\* Mutant: the carried state is 0, not the cost sum.
repair_cost_stat_zero_state(w, last_stat_time, cost_anchor) ==
    LET cost_anchor_dt == cost_anchor[1]
        cost_anchor_sum == cost_anchor[3]
    IN  IF \/ IsNone(cost_anchor_sum)
           \/ EPS_SCALE * Val(cost_anchor_sum) <= 1
           \/ IsNone(cost_anchor_dt)
        THEN w
        ELSE [w EXCEPT
                !.cost = async_write_carry_forward_stats(
                             w.cost, Val(cost_anchor_dt), last_stat_time,
                             0, Val(cost_anchor_sum)).series]

\* cost_anchor is the row async_get_highest_sum_stat returned for the cost
\* series.
repair_cost_stat(w, last_stat_time, cost_anchor) ==
    LET cost_anchor_dt == cost_anchor[1]
        cost_anchor_sum == cost_anchor[3]
    IN  IF \/ IsNone(cost_anchor_sum)
           \/ EPS_SCALE * Val(cost_anchor_sum) <= 1
           \/ IsNone(cost_anchor_dt)
        THEN w
        ELSE [w EXCEPT
                !.cost = async_write_carry_forward_stats(
                             w.cost, Val(cost_anchor_dt), last_stat_time,
                             Val(cost_anchor_sum), Val(cost_anchor_sum)).series]

\* Mutant: on an empty series the in-memory time is kept as the baseline.
ResolveBranches_keep_stale(w) ==
    LET last == get_last_imported_stat(w.store)
    IN  IF IsNone(last[1])
        THEN [w |-> w, elt |-> w.mem, reading |-> last[2], sum |-> last[3],
              repaired |-> FALSE, branch |-> "empty"]
        ELSE [w |-> [w EXCEPT !.mem = last[1]], elt |-> last[1],
              reading |-> last[2], sum |-> last[3], repaired |-> FALSE,
              branch |-> "lag"]

\* Mutant: a store that lags a known in-memory time leaves that time as the
\* baseline.
ResolveBranches_keep_memory(w) ==
    LET last == get_last_imported_stat(w.store)
        last_stat_time == last[1]
        effective_last_time == w.mem
    IN  IF IsNone(last_stat_time) /\ ~IsNone(effective_last_time)
        THEN [w |-> [w EXCEPT !.mem = None], elt |-> None,
              reading |-> last[2], sum |-> last[3], repaired |-> FALSE,
              branch |-> "empty"]
        ELSE IF ~IsNone(last_stat_time)
                /\ (IsNone(effective_last_time)
                    \/ Val(last_stat_time) < Val(effective_last_time))
        THEN IF IsNone(effective_last_time)
             THEN [w |-> [w EXCEPT !.mem = last_stat_time],
                   elt |-> last_stat_time, reading |-> last[2],
                   sum |-> last[3], repaired |-> FALSE, branch |-> "lag"]
             ELSE [w |-> w, elt |-> effective_last_time, reading |-> last[2],
                   sum |-> last[3], repaired |-> FALSE, branch |-> "lag"]
        ELSE IF ~IsNone(last_stat_time) /\ ~IsNone(effective_last_time)
                /\ Val(last_stat_time) > Val(effective_last_time)
        THEN LET r == repair_db_ahead_baseline(w, Val(last_stat_time),
                                               Val(effective_last_time), last[3])
             IN  [w |-> r.w, elt |-> r.elt, reading |-> r.reading,
                  sum |-> r.sum, repaired |-> r.repaired, branch |-> "ahead"]
        ELSE [w |-> w, elt |-> effective_last_time, reading |-> last[2],
              sum |-> last[3], repaired |-> FALSE, branch |-> "same"]

\* _resolve_effective_last_imported_time up to and including the
\* "DB ahead" branch.
ResolveBranches(w) ==
    LET last == get_last_imported_stat(w.store)
        last_stat_time == last[1]
        effective_last_time == w.mem
    IN  IF IsNone(last_stat_time) /\ ~IsNone(effective_last_time)
        THEN [w |-> [w EXCEPT !.mem = None], elt |-> None,
              reading |-> last[2], sum |-> last[3], repaired |-> FALSE,
              branch |-> "empty"]
        ELSE IF ~IsNone(last_stat_time)
                /\ (IsNone(effective_last_time)
                    \/ Val(last_stat_time) < Val(effective_last_time))
        THEN [w |-> [w EXCEPT !.mem = last_stat_time], elt |-> last_stat_time,
              reading |-> last[2], sum |-> last[3], repaired |-> FALSE,
              branch |-> "lag"]
        ELSE IF ~IsNone(last_stat_time) /\ ~IsNone(effective_last_time)
                /\ Val(last_stat_time) > Val(effective_last_time)
        THEN LET r == repair_db_ahead_baseline(w, Val(last_stat_time),
                                               Val(effective_last_time), last[3])
             IN  [w |-> r.w, elt |-> r.elt, reading |-> r.reading,
                  sum |-> r.sum, repaired |-> r.repaired, branch |-> "ahead"]
        ELSE [w |-> w, elt |-> effective_last_time, reading |-> last[2],
              sum |-> last[3], repaired |-> FALSE, branch |-> "same"]

\* The rest of _resolve_effective_last_imported_time: the monotonicity sweep
\* and the cost repair, for the rows the two max-sum queries returned.
ResolveSweep(b, last_stat_time, configured, anchor, cost_anchor) ==
    LET sweep == ~IsNone(last_stat_time) /\ ~IsNone(b.sum)
        m == IF sweep
             THEN repair_sum_monotonicity(b.w, Val(last_stat_time), Val(b.sum),
                                          anchor)
             ELSE [w |-> b.w, elt |-> None, reading |-> None, sum |-> None,
                   repaired |-> FALSE]
        consumption_repaired == b.repaired \/ m.repaired
        w2 == IF consumption_repaired /\ configured /\ ~IsNone(last_stat_time)
              THEN repair_cost_stat(m.w, Val(last_stat_time), cost_anchor)
              ELSE m.w
    IN  [w |-> w2,
         elt |-> IF m.repaired THEN m.elt ELSE b.elt,
         reading |-> IF m.repaired THEN m.reading ELSE b.reading,
         sum |-> IF m.repaired THEN m.sum ELSE b.sum,
         branch |-> b.branch, ahead |-> b.repaired, mono |-> m.repaired,
         anchor |-> IF m.repaired THEN anchor[1] ELSE None]

\* _resolve_effective_last_imported_time: every outcome the call can have
\* (one per row the max-sum queries may return).
resolve_effective_last_imported_time(w, configured) ==
    LET last_stat_time == get_last_imported_stat(w.store)[1]
        b == ResolveBranches(w)
        sweep == ~IsNone(last_stat_time) /\ ~IsNone(b.sum)
        anchors == IF sweep THEN async_get_highest_sum_stat(b.w.store)
                   ELSE {<<None, None, None>>}
        cost_anchors == IF configured THEN async_get_highest_sum_stat(b.w.cost)
                        ELSE {<<None, None, None>>}
    IN  {ResolveSweep(b, last_stat_time, configured, a, ca) :
             a \in anchors, ca \in cost_anchors}

\* Mutant: the cached display value is never resynced.
SyncEntityState_keep_cached(w, last_stat_reading) == w

\* _handle_update_locked, no new data: the cached display value follows the
\* baseline reading when that is present and differs.
SyncEntityState(w, last_stat_reading) ==
    IF ~IsNone(last_stat_reading) /\ w.native # last_stat_reading
    THEN [w EXCEPT !.native = last_stat_reading]
    ELSE w

\* Mutant: the rows after the imported tip are not sealed.
HandleResolved_unsealed(r, data_all, price_per_unit) ==
    LET filtered == filter_newer_data(data_all, r.elt)
        overshoot == /\ Len(filtered) = 0
                     /\ data_all # <<>>
                     /\ ~IsNone(r.elt)
                     /\ data_all[Len(data_all)].dt < Val(r.elt)
        w1 == IF overshoot THEN [r.w EXCEPT !.mem = None] ELSE r.w
        data == IF overshoot THEN filter_newer_data(data_all, None) ELSE filtered
        trace == [branch |-> r.branch, ahead |-> r.ahead, mono |-> r.mono,
                  anchor |-> r.anchor, overshoot |-> overshoot]
    IN  IF Len(data) = 0
        THEN [w |-> SyncEntityState(w1, r.reading),
              trace |-> trace, imported |-> <<>>, overlap |-> FALSE,
              base |-> <<None, None>>, sealed |-> 0,
              available |-> TRUE]
        ELSE
        LET imp == centralized_import_statistics(w1.store, w1.cost, data,
                                                 price_per_unit)
            imported_time == data[Len(data)].dt
            last_import_state == Val(imp.result)[2]
            last_import_sum == Val(imp.result)[3]
            db_tip_time == get_last_imported_stat(imp.store)[1]
            seal == [series |-> imp.store, count |-> 0]
        IN  [w |-> World(seal.series, imp.cost, Some(imported_time),
                         Some(data[Len(data)].reading)),
             trace |-> trace, imported |-> imp.rows, overlap |-> imp.overlap,
             base |-> imp.base, sealed |-> seal.count,
             available |-> TRUE]

\* Mutant: a newest reading at the baseline time is an overshoot too.
HandleResolved_overshoot_at_baseline(r, data_all, price_per_unit) ==
    LET filtered == filter_newer_data(data_all, r.elt)
        overshoot == /\ Len(filtered) = 0
                     /\ data_all # <<>>
                     /\ ~IsNone(r.elt)
                     /\ data_all[Len(data_all)].dt <= Val(r.elt)
        w1 == IF overshoot THEN [r.w EXCEPT !.mem = None] ELSE r.w
        data == IF overshoot THEN filter_newer_data(data_all, None) ELSE filtered
        trace == [branch |-> r.branch, ahead |-> r.ahead, mono |-> r.mono,
                  anchor |-> r.anchor, overshoot |-> overshoot]
    IN  IF Len(data) = 0
        THEN [w |-> SyncEntityState(w1, r.reading),
              trace |-> trace, imported |-> <<>>, overlap |-> FALSE,
              base |-> <<None, None>>, sealed |-> 0,
              available |-> TRUE]
        ELSE
        LET imp == centralized_import_statistics(w1.store, w1.cost, data,
                                                 price_per_unit)
            imported_time == data[Len(data)].dt
            last_import_state == Val(imp.result)[2]
            last_import_sum == Val(imp.result)[3]
            db_tip_time == get_last_imported_stat(imp.store)[1]
            seal == IF ~IsNone(imp.result) /\ ~IsNone(db_tip_time)
                       /\ Val(db_tip_time) > imported_time
                    THEN async_write_carry_forward_stats(
                             imp.store, imported_time, Val(db_tip_time),
                             last_import_state, last_import_sum)
                    ELSE [series |-> imp.store, count |-> 0]
        IN  [w |-> World(seal.series, imp.cost, Some(imported_time),
                         Some(data[Len(data)].reading)),
             trace |-> trace, imported |-> imp.rows, overlap |-> imp.overlap,
             base |-> imp.base, sealed |-> seal.count,
             available |-> TRUE]

\* _handle_update_locked after the baseline was resolved as r.  The cycle
\* runs only after _state_update found the coordinator's update successful
\* and set _attr_available; the resync sets it again.
HandleResolved(r, data_all, price_per_unit) ==
    LET filtered == filter_newer_data(data_all, r.elt)
        overshoot == /\ Len(filtered) = 0
                     /\ data_all # <<>>
                     /\ ~IsNone(r.elt)
                     /\ data_all[Len(data_all)].dt < Val(r.elt)
        w1 == IF overshoot THEN [r.w EXCEPT !.mem = None] ELSE r.w
        data == IF overshoot THEN filter_newer_data(data_all, None) ELSE filtered
        trace == [branch |-> r.branch, ahead |-> r.ahead, mono |-> r.mono,
                  anchor |-> r.anchor, overshoot |-> overshoot]
    IN  IF Len(data) = 0
        THEN [w |-> SyncEntityState(w1, r.reading),
              trace |-> trace, imported |-> <<>>, overlap |-> FALSE,
              base |-> <<None, None>>, sealed |-> 0,
              available |-> TRUE]
        ELSE
        LET imp == centralized_import_statistics(w1.store, w1.cost, data,
                                                 price_per_unit)
            imported_time == data[Len(data)].dt
            last_import_state == Val(imp.result)[2]
            last_import_sum == Val(imp.result)[3]
            db_tip_time == get_last_imported_stat(imp.store)[1]
            seal == IF ~IsNone(imp.result) /\ ~IsNone(db_tip_time)
                       /\ Val(db_tip_time) > imported_time
                    THEN async_write_carry_forward_stats(
                             imp.store, imported_time, Val(db_tip_time),
                             last_import_state, last_import_sum)
                    ELSE [series |-> imp.store, count |-> 0]
        IN  [w |-> World(seal.series, imp.cost, Some(imported_time),
                         Some(data[Len(data)].reading)),
             trace |-> trace, imported |-> imp.rows, overlap |-> imp.overlap,
             base |-> imp.base, sealed |-> seal.count,
             available |-> TRUE]

\* _handle_update_locked: every outcome of one cycle.
handle_update_locked(w, data_all, configured, price_per_unit) ==
    {HandleResolved(r, data_all, price_per_unit) :
         r \in resolve_effective_last_imported_time(w, configured)}

-----------------------------------------------------------------------------
(* Inputs. *)

\* Reading sequences as the metering API returns them: hourly data points in
\* timestamp order, of any values (a backward jump included).
ReadingSeqs(maxlen) ==
    UNION {{[i \in 1..n |-> DataPoint((a + i - 1) * HOUR, r[i])] :
               r \in [1..n -> Readings], a \in 0..(MaxHour + 1 - n)} :
           n \in 0..maxlen}

OptReadings == {None} \cup {Some(r) : r \in Readings}

IdleCall == [fn |-> "none"]
IdleEv == [op |-> "init"]

-----------------------------------------------------------------------------
(* SpecConvert: one call of convert_statistic_data on bounded inputs. *)

InitConvert ==
    /\ store = EmptySeries /\ cost = EmptySeries
    /\ mem = None /\ native = None /\ api = <<>>
    /\ price_entity = FALSE /\ ev = IdleEv /\ budget = 0
    /\ call \in [fn : {"convert"}, data : ReadingSeqs(MaxLen),
                 last_sum : OptReadings, last_reading : OptReadings,
                 out : {<<>>}, done : {FALSE}]

Convert ==
    /\ call.fn = "convert" /\ ~call.done
    /\ call' = [call EXCEPT
                  !.out = convert_statistic_data(call.data, call.last_sum,
                                                 call.last_reading),
                  !.done = TRUE]
    /\ UNCHANGED <<store, cost, mem, native, api, price_entity, ev, budget>>

NextConvert == Convert

SpecConvert == InitConvert /\ [][NextConvert]_vars

ConvertDone == call.fn = "convert" /\ call.done

NoBaseline == IsNone(call.last_sum) /\ IsNone(call.last_reading)

NonDecreasing(data) ==
    \A i \in 2..Len(data) : data[i].reading >= data[i - 1].reading

HasBackwardJump(data) ==
    \E i \in 2..Len(data) : data[i].reading < data[i - 1].reading

\* One output row per reading, in input order, starting at the reading's
\* timestamp.
RowPerReading(out, data) ==
    /\ Len(out) = Len(data)
    /\ \A i \in 1..Len(data) : out[i].start = data[i].dt

\* The sums and states the raw readings give by plain differencing.
RawDeltaRows(out, data) ==
    /\ data # <<>> => out[1].sum = 0
    /\ \A i \in 2..Len(data) :
           out[i].sum = out[i - 1].sum + (data[i].reading - data[i - 1].reading)
    /\ \A i \in 1..Len(data) : out[i].state = data[i].reading

\* C4 as stated: with no baseline, for every reading sequence, the first sum
\* is 0, each later sum adds the difference of the raw readings, each state is
\* the raw reading and there is one row per reading at its timestamp.
C4_DeltaRowsAnySequence ==
    (ConvertDone /\ NoBaseline) =>
        RowPerReading(call.out, call.data) /\ RawDeltaRows(call.out, call.data)

\* C4 amended: the same, for every reading sequence whose values never
\* decrease (a backward jump is clamped by the normalisation first).
C4_DeltaRowsNonDecreasing ==
    (ConvertDone /\ NoBaseline /\ NonDecreasing(call.data)) =>
        RowPerReading(call.out, call.data) /\ RawDeltaRows(call.out, call.data)

C4_Witness ==
    /\ ConvertDone /\ NoBaseline /\ NonDecreasing(call.data)
    /\ Len(call.data) = 3
    /\ call.data[1].reading < call.data[2].reading
    /\ call.data[2].reading < call.data[3].reading
    /\ call.out[3].sum = call.data[3].reading - call.data[1].reading

\* C5: continuation.  With last_sum S and last_reading R the first sum is
\* S + (readings[0] - R); with S only it is S; with R only it is
\* readings[0] - R.
C5_Continuation ==
    (ConvertDone /\ call.data # <<>>) =>
        LET first == call.out[1].sum
            r0 == call.data[1].reading
            S == call.last_sum
            R == call.last_reading
        IN  /\ (~IsNone(S) /\ ~IsNone(R)) => first = Val(S) + (r0 - Val(R))
            /\ (~IsNone(S) /\ IsNone(R)) => first = Val(S)
            /\ (IsNone(S) /\ ~IsNone(R)) => first = r0 - Val(R)

C5_Witness ==
    /\ ConvertDone /\ call.data # <<>>
    /\ ~IsNone(call.last_sum) /\ ~IsNone(call.last_reading)
    /\ Val(call.last_sum) > 0
    /\ call.data[1].reading > Val(call.last_reading)
    /\ call.out[1].sum > Val(call.last_sum)

\* C6: for every reading sequence, backward jumps included, the output has
\* the input's length and its sums never decrease from one row to the next.
C6_SumsNonDecreasing ==
    ConvertDone =>
        /\ Len(call.out) = Len(call.data)
        /\ \A i \in 2..Len(call.out) : call.out[i].sum >= call.out[i - 1].sum

C6_Witness ==
    /\ ConvertDone /\ HasBackwardJump(call.data)
    /\ Len(call.out) = 3
    /\ call.out[3].sum > call.out[2].sum

-----------------------------------------------------------------------------
(* SpecCost: one call of convert_cost_statistic_data on bounded inputs. *)

\* Prices per unit of volume handed to the conversion: the callers pass a
\* price above 0 only.
Prices == {1, 2}

InitCost ==
    /\ store = EmptySeries /\ cost = EmptySeries
    /\ mem = None /\ native = None /\ api = <<>>
    /\ price_entity = TRUE /\ ev = IdleEv /\ budget = 0
    /\ call \in [fn : {"cost"}, data : ReadingSeqs(MaxLen), price : Prices,
                 last_cost_sum : OptReadings, last_reading : OptReadings,
                 out : {<<>>}, done : {FALSE}]

CostConvert ==
    /\ call.fn = "cost" /\ ~call.done
    /\ call' = [call EXCEPT
                  !.out = convert_cost_statistic_data(
                              call.data, call.price, call.last_cost_sum,
                              call.last_reading),
                  !.done = TRUE]
    /\ UNCHANGED <<store, cost, mem, native, api, price_entity, ev, budget>>

NextCost == CostConvert

SpecCost == InitCost /\ [][NextCost]_vars

-----------------------------------------------------------------------------
(* SpecCarry: async_write_carry_forward_stats called twice with the same     *)
(* arguments on a bounded series.  The arguments are hour-aligned, as every  *)
(* caller's are (starts of stored rows and timestamps of imported readings). *)

OldRows == {StoredRow(Some(0), Some(0), "compiler"),
            StoredRow(Some(MaxReading), Some(1), "import")}

SeriesOver(rows) == UNION {[D -> rows] : D \in SUBSET Times}

InitCarry ==
    /\ store \in SeriesOver(OldRows)
    /\ cost = EmptySeries
    /\ mem = None /\ native = None /\ api = <<>>
    /\ price_entity = FALSE /\ ev = IdleEv /\ budget = 0
    /\ \E f \in Times, th \in Times, st \in {0, MaxReading}, sm \in Readings :
           call = [fn |-> "carry", from_dt |-> f, through_dt |-> th,
                   carry_state |-> st, carry_sum |-> sm, phase |-> 0,
                   before |-> store, count1 |-> 0, after1 |-> store,
                   count2 |-> 0]

CarryResult ==
    async_write_carry_forward_stats(store, call.from_dt, call.through_dt,
                                    call.carry_state, call.carry_sum)

CarryFirst ==
    /\ call.fn = "carry" /\ call.phase = 0
    /\ store' = CarryResult.series
    /\ call' = [call EXCEPT !.phase = 1, !.count1 = CarryResult.count,
                            !.after1 = CarryResult.series]
    /\ UNCHANGED <<cost, mem, native, api, price_entity, ev, budget>>

CarrySecond ==
    /\ call.fn = "carry" /\ call.phase = 1
    /\ store' = CarryResult.series
    /\ call' = [call EXCEPT !.phase = 2, !.count2 = CarryResult.count]
    /\ UNCHANGED <<cost, mem, native, api, price_entity, ev, budget>>

NextCarry == CarryFirst \/ CarrySecond

SpecCarry == InitCarry /\ [][NextCarry]_vars

\* The hour steps strictly after from_dt up to and including through_dt.
HourSteps(from_dt, through_dt) ==
    {t \in {from_dt + k * HOUR : k \in 1..(MaxHour + 1)} : t <= through_dt}

C10_CarryForwardIdempotent ==
    (call.fn = "carry" /\ call.phase = 2) =>
        (store = call.after1 /\ call.count2 = call.count1)

C10_Witness ==
    /\ call.fn = "carry" /\ call.phase = 2
    /\ call.count2 >= 2
    /\ store # call.before
    /\ \E t \in DOMAIN call.before :
           call.from_dt < t /\ t <= call.through_dt

-----------------------------------------------------------------------------
(* Spec: the engine of one device.  Each handler runs to completion as one   *)
(* step: a scheduled cycle (coordinator refresh, then _handle_update_locked),*)
(* a manual historical import, a restart of the integration                  *)
(* (async_setup_entry, then async_added_to_hass), and the recorder's hourly  *)
(* compiler, which is outside the engine and writes a row for an hour that   *)
(* has none yet.  A write to the recorder is visible to the next read.       *)

\* What the last step did; read by properties only.
Trace(op, tr, rows, overlap, base, sealed, purge) ==
    [op |-> op, branch |-> tr.branch, ahead |-> tr.ahead, mono |-> tr.mono,
     anchor |-> tr.anchor, overshoot |-> tr.overshoot, n |-> Len(rows),
     overlap |-> overlap, base |-> base, sealed |-> sealed, purge |-> purge]

NoResolve ==
    [branch |-> "none", ahead |-> FALSE, mono |-> FALSE, anchor |-> None,
     overshoot |-> FALSE]

\* The hours the engine's series may hold a row for, and the histories the
\* API may return: consecutive hourly data points of any readings.
Slots == {h * HOUR : h \in 0..MaxSlot}

Fetches ==
    UNION {{[i \in 1..n |-> DataPoint((a + i - 1) * HOUR, r[i])] :
               r \in [1..n -> 0..MaxMeter], a \in 0..(MaxSlot + 1 - n)} :
           n \in 0..MaxFetch}

CompilerSums == 0..MaxMeter

PriceChoices == IF price_entity THEN PriceStates ELSE {[kind |-> "missing"]}

Init ==
    /\ store = EmptySeries /\ cost = EmptySeries
    /\ mem = None /\ native = None /\ api = <<>>
    /\ price_entity = FALSE
    /\ ev = Trace("init", NoResolve, <<>>, FALSE, <<None, None>>, 0, FALSE)
    /\ budget = MaxWrites
    /\ call = IdleCall

\* coordinator._async_update_data succeeded with `data` as the device's
\* history, then sensor._state_update and _handle_update_locked.
Poll ==
    \E data \in Fetches, ps \in PriceChoices :
        /\ api' = data
        /\ IF Len(data) = 0
           THEN /\ ev' = Trace("poll", NoResolve, <<>>, FALSE, <<None, None>>,
                               0, FALSE)
                /\ UNCHANGED <<store, cost, mem, native>>
           ELSE \E out \in handle_update_locked(
                               World(store, cost, mem, native), data,
                               price_entity,
                               resolve_price_per_unit(price_entity, ps)) :
                    /\ store' = out.w.store /\ cost' = out.w.cost
                    /\ mem' = out.w.mem /\ native' = out.w.native
                    /\ ev' = Trace("poll", out.trace, out.imported,
                                   out.overlap, out.base, out.sealed, FALSE)
        /\ UNCHANGED <<price_entity, budget, call>>

\* coordinator.import_historical_data for the device, the API returning
\* `data`.
ManualImport ==
    \E data \in Fetches, ps \in PriceChoices, purge_states \in BOOLEAN :
        /\ api' = data
        /\ IF Len(data) = 0
           THEN /\ ev' = Trace("manual", NoResolve, <<>>, FALSE,
                               <<None, None>>, 0, FALSE)
                /\ UNCHANGED <<store, cost>>
           ELSE LET imp == centralized_import_statistics(
                               store, cost, data,
                               resolve_price_per_unit(price_entity, ps))
                    last_import_dt == data[Len(data)].dt
                IN  /\ store' = IF purge_states
                                THEN async_delete_statistics_after(
                                         imp.store, last_import_dt)
                                ELSE imp.store
                    /\ cost' = IF purge_states
                               THEN async_delete_statistics_after(
                                        imp.cost, last_import_dt)
                               ELSE imp.cost
                    /\ ev' = Trace("manual", NoResolve, imp.rows, imp.overlap,
                                   imp.base, 0, purge_states)
        /\ UNCHANGED <<mem, native, price_entity, budget, call>>

\* The recorder's hourly compiler writes the row of an hour after the tip
\* from the entity's state; its sum is the compiler's own.
CompilerWrite ==
    \E t \in Slots, sm \in CompilerSums :
        /\ budget > 0
        /\ ~IsNone(native)
        /\ DOMAIN store # {} => t > LastStart(store)
        /\ store' = [u \in DOMAIN store \cup {t} |->
                        IF u = t THEN StoredRow(native, Some(sm), "compiler")
                        ELSE store[u]]
        /\ budget' = budget - 1
        /\ ev' = Trace("compiler", NoResolve, <<>>, FALSE, <<None, None>>, 0,
                       FALSE)
        /\ UNCHANGED <<cost, mem, native, api, price_entity, call>>

\* The integration is set up again: async_setup_entry builds the sensor with
\* the time of the last stored row, async_added_to_hass restores the entity's
\* last state (none when the states table holds none), reconciles it with the
\* last stored reading and resolves the baseline.
Restart ==
    \E restored \in {native, None} :
        LET last == get_last_imported_stat(store)
            last_stat_reading == last[2]
            reconciled == IF IsNone(last_stat_reading) THEN restored
                          ELSE IF restored # last_stat_reading
                               THEN last_stat_reading
                               ELSE restored
        IN  \E r \in resolve_effective_last_imported_time(
                         World(store, cost, last[1], reconciled),
                         price_entity) :
                /\ store' = r.w.store /\ cost' = r.w.cost
                /\ mem' = r.w.mem /\ native' = r.w.native
                /\ api' = <<>>
                /\ ev' = Trace("restart",
                               [branch |-> r.branch, ahead |-> r.ahead,
                                mono |-> r.mono, anchor |-> r.anchor,
                                overshoot |-> FALSE],
                               <<>>, FALSE, <<None, None>>, 0, FALSE)
                /\ UNCHANGED <<price_entity, budget, call>>

-----------------------------------------------------------------------------
(* The reset_statistics service: __init__._async_reset_statistics and       *)
(* statistics_tools.  Absent call data and a None result are the empty      *)
(* sequence.  The short-term table is the recorder's own: the engine never    *)
(* reads it, so the number of short-term rows the series holds at the call  *)
(* is an input of the action.                                               *)
(* An identifier is a sequence of characters; the fixed prefix of a series  *)
(* id, and an id the integration did not build, is one element of it.       *)

\* The characters a device identifier is drawn from.
IdChars == {"a", "A", "1", "-", "_"}

\* str.isalnum and str.lower on one character of IdChars.
isalnum(c) == c \in {"a", "A", "1"}
lower(c) == IF c = "A" THEN "a" ELSE c

normalize_id(uuid) == [i \in DOMAIN uuid |-> lower(IF isalnum(uuid[i]) \/ uuid[i] = "_" THEN uuid[i] ELSE "_")]

METER_ID == <<"1">>
ENTITY_PREFIX == "sensor.water_meter_"
COST_STAT_SUFFIX == <<"_", "c", "o", "s", "t">>

get_entity_statistic_id(meter_id) == <<ENTITY_PREFIX>> \o normalize_id(meter_id)

get_cost_statistic_id(meter_id) == get_entity_statistic_id(meter_id) \o COST_STAT_SUFFIX

\* The consumption series of the device.
DeviceSeries == get_entity_statistic_id(METER_ID)

\* Mutant: an entity_id without the prefix falls back to meter_id.
resolve_statistic_id_falls_back(statistic_id, entity_id, meter_id) ==
    IF statistic_id # <<>> THEN statistic_id
    ELSE IF entity_id # <<>> /\ entity_id[1] = ENTITY_PREFIX THEN entity_id
    ELSE IF meter_id # <<>> THEN get_entity_statistic_id(meter_id)
    ELSE <<>>

resolve_statistic_id(statistic_id, entity_id, meter_id) ==
    IF statistic_id # <<>> THEN statistic_id
    ELSE IF entity_id # <<>>
         THEN IF entity_id[1] = ENTITY_PREFIX THEN entity_id ELSE <<>>
    ELSE IF meter_id # <<>> THEN get_entity_statistic_id(meter_id)
    ELSE <<>>

\* statistics_tools._delete_statistics_rows on the series of the device and
\* its `short` short-term rows: a series that is not the device's has no row
\* here; a failure inside the session rolls the deletion back and is raised.
delete_statistics_rows(series, short, statistic_id, fails) ==
    IF fails
    THEN [series |-> series, short |-> short, deleted |-> 0, raised |-> TRUE]
    ELSE IF statistic_id # DeviceSeries
    THEN [series |-> series, short |-> short, deleted |-> 0, raised |-> FALSE]
    ELSE [series |-> EmptySeries, short |-> 0,
          deleted |-> Cardinality(DOMAIN series) + short, raised |-> FALSE]

\* Mutant: the confirmation token is not checked.
async_reset_statistics_unconfirmed(series, short, data, fails) ==
    LET statistic_id == resolve_statistic_id(data.statistic_id, data.entity_id,
                                             data.meter_id)
    IN  IF statistic_id = <<>>
        THEN [series |-> series, short |-> short, deleted |-> 0,
              raised |-> FALSE, proceeded |-> FALSE]
        ELSE [proceeded |-> TRUE]
                 @@ delete_statistics_rows(series, short, statistic_id, fails)

async_reset_statistics(series, short, data, fails) ==
    LET statistic_id == resolve_statistic_id(data.statistic_id, data.entity_id,
                                             data.meter_id)
    IN  IF data.confirm # "DELETE" \/ statistic_id = <<>>
        THEN [series |-> series, short |-> short, deleted |-> 0,
              raised |-> FALSE, proceeded |-> FALSE]
        ELSE [proceeded |-> TRUE]
                 @@ delete_statistics_rows(series, short, statistic_id, fails)

\* The data of a service call.
ResetCalls ==
    {[confirm |-> c, statistic_id |-> t[1], entity_id |-> t[2],
      meter_id |-> t[3]] :
         c \in {"DELETE", "delete", ""},
         t \in {<<<<>>, <<>>, <<>>>>, <<DeviceSeries, <<>>, <<>>>>,
                <<<<"sensor.elsewhere">>, <<>>, <<>>>>,
                <<<<>>, DeviceSeries, <<>>>>,
                <<<<>>, <<"switch.pump">>, <<>>>>, <<<<>>, <<>>, METER_ID>>}}

ResetStatistics ==
    \E data \in ResetCalls, short \in 0..MaxShort, fails \in BOOLEAN :
        LET r == async_reset_statistics(store, short, data, fails)
        IN  /\ store' = r.series
            /\ ev' = [data |-> data, short |-> short, fails |-> fails,
                      short_after |-> r.short, deleted |-> r.deleted,
                      raised |-> r.raised, proceeded |-> r.proceeded]
                         @@ Trace("reset", NoResolve, <<>>, FALSE,
                                  <<None, None>>, 0, FALSE)
            /\ UNCHANGED <<cost, mem, native, api, price_entity, budget, call>>

Next == Poll \/ ManualImport \/ CompilerWrite \/ Restart

Spec == Init /\ [][Next]_vars

-----------------------------------------------------------------------------
(* SpecImport: one call of centralized_import_statistics, without a price,  *)
(* on a fetched history and a consumption series of any rows.               *)

\* Series of any rows at the engine's hours: any state, the sum at either
\* end of the range.
ImportStores ==
    UNION {[D -> {StoredRow(Some(st), Some(sm), "import") :
                      st \in 0..MaxMeter, sm \in {0, MaxMeter}}] :
           D \in SUBSET Slots}

InitImport ==
    /\ store \in ImportStores /\ cost = EmptySeries
    /\ mem = None /\ native = None
    /\ api \in Fetches
    /\ price_entity = FALSE
    /\ ev = Trace("init", NoResolve, <<>>, FALSE, <<None, None>>, 0, FALSE)
    /\ budget = 0
    /\ call = [fn |-> "import", done |-> FALSE]

Import ==
    /\ call.fn = "import" /\ ~call.done
    /\ LET imp == centralized_import_statistics(store, cost, api, None)
       IN  /\ store' = imp.store /\ cost' = imp.cost
           /\ ev' = Trace("import", NoResolve, imp.rows, imp.overlap,
                          imp.base, 0, FALSE)
    /\ call' = [call EXCEPT !.done = TRUE]
    /\ UNCHANGED <<mem, native, api, price_entity, budget>>

NextImport == Import

SpecImport == InitImport /\ [][NextImport]_vars

-----------------------------------------------------------------------------
(* SpecReset: the reset_statistics service called on a consumption series   *)
(* with rows at any of the engine's hours, the sensor holding the time of   *)
(* its last row.  The service counts and deletes rows; it reads no column.  *)

ResetStores ==
    {[t \in D |-> StoredRow(Some(0), Some(0), "import")] : D \in SUBSET Slots}

InitReset ==
    /\ store \in ResetStores /\ cost = EmptySeries
    /\ mem = get_last_imported_stat(store)[1] /\ native = None
    /\ api = <<>>
    /\ price_entity = FALSE
    /\ ev = Trace("init", NoResolve, <<>>, FALSE, <<None, None>>, 0, FALSE)
    /\ budget = 0
    /\ call = IdleCall

NextReset == ResetStatistics

SpecReset == InitReset /\ [][NextReset]_vars

\* SpecEmpty: scheduled cycles of a sensor whose series was deleted under it
\* (by the reset service) while it holds a last-imported time.
InitEmpty ==
    /\ store = EmptySeries /\ cost = EmptySeries
    /\ mem \in {Some(t) : t \in Slots}
    /\ native \in {None} \cup {Some(r) : r \in 0..MaxMeter}
    /\ api = <<>>
    /\ price_entity = FALSE
    /\ ev = Trace("init", NoResolve, <<>>, FALSE, <<None, None>>, 0, FALSE)
    /\ budget = 0
    /\ call = IdleCall

NextEmpty == Poll

SpecEmpty == InitEmpty /\ [][NextEmpty]_vars

-----------------------------------------------------------------------------
(* statistics_tools: the monotonic audit (validate_monotonic_sums).         *)

\* The positional parameters of _get_statistics_rows (hass, statistic_id:
\* the rest are keyword-only) and the positional arguments
\* validate_monotonic_sums hands to it through async_add_executor_job.
GetRowsPositionalParameters == 2
GetRowsPositionalArguments == 5

\* The rows of the series from start_time on, in start order.
RECURSIVE OrderedRows(_, _)
OrderedRows(series, starts) ==
    IF starts = {} THEN <<>>
    ELSE LET t == CHOOSE x \in starts : \A y \in starts : x <= y
         IN  <<[start |-> t, sum |-> series[t].sum]>>
                 \o OrderedRows(series, starts \ {t})

\* statistics_tools._get_statistics_rows: one page of the query.
get_statistics_rows(series, start_time, offset, limit) ==
    LET starts == {t \in DOMAIN series :
                       IsNone(start_time) \/ t >= Val(start_time)}
        all == OrderedRows(series, starts)
    IN  SubSeq(all, offset + 1, Min(Len(all), offset + limit))

\* The body of the for loop over one batch: the violations found and the
\* previous sum after row i of the batch.
RECURSIVE AuditBatch(_, _, _, _)
AuditBatch(rows, i, total_checked, previous_sum) ==
    IF i > Len(rows) THEN [violations |-> <<>>, previous_sum |-> previous_sum]
    ELSE LET row == rows[i]
         IN  IF IsNone(row.sum)
             THEN AuditBatch(rows, i + 1, total_checked, previous_sum)
             ELSE LET rest == AuditBatch(rows, i + 1, total_checked, row.sum)
                      found == IF ~IsNone(previous_sum)
                                  /\ Val(row.sum) < Val(previous_sum)
                               THEN <<[index |-> total_checked + i - 1,
                                       start |-> row.start,
                                       previous_sum |-> Val(previous_sum),
                                       current_sum |-> Val(row.sum)]>>
                               ELSE <<>>
                  IN  [violations |-> found \o rest.violations,
                       previous_sum |-> rest.previous_sum]

\* The while loop of validate_monotonic_sums.
RECURSIVE AuditLoop(_, _, _, _, _)
AuditLoop(series, start_time, offset, total_checked, previous_sum) ==
    LET rows == get_statistics_rows(series, start_time, offset, BatchSize)
    IN  IF rows = <<>>
        THEN [raised |-> FALSE, checked |-> total_checked, violations |-> <<>>]
        ELSE LET b == AuditBatch(rows, 1, total_checked, previous_sum)
                 rest == AuditLoop(series, start_time, offset + BatchSize,
                                   total_checked + Len(rows), b.previous_sum)
             IN  [rest EXCEPT !.violations = b.violations \o rest.violations]

\* statistics_tools.validate_monotonic_sums: the first batch is requested
\* with five positional arguments from a function that binds two, which
\* raises TypeError in the executor; the error is not caught.
validate_monotonic_sums(series, start_time) ==
    IF GetRowsPositionalArguments > GetRowsPositionalParameters
    THEN [raised |-> TRUE, checked |-> 0, violations |-> <<>>]
    ELSE AuditLoop(series, start_time, 0, 0, None)

\* SpecAudit: one audit of a series of any rows, sums absent or present.
AuditStores ==
    UNION {[D -> {StoredRow(Some(0), sm, "import") :
                      sm \in {None} \cup {Some(x) : x \in 0..MaxMeter}}] :
           D \in SUBSET Slots}

InitAudit ==
    /\ store \in AuditStores /\ cost = EmptySeries
    /\ mem = None /\ native = None /\ api = <<>>
    /\ price_entity = FALSE
    /\ ev = Trace("init", NoResolve, <<>>, FALSE, <<None, None>>, 0, FALSE)
    /\ budget = 0
    /\ call \in [fn : {"audit"}, start_time : {None} \cup {Some(t) : t \in Slots},
                 done : {FALSE}, result : {None}]

Audit ==
    /\ call.fn = "audit" /\ ~call.done
    /\ call' = [call EXCEPT
                  !.done = TRUE,
                  !.result = Some(validate_monotonic_sums(store,
                                                          call.start_time))]
    /\ UNCHANGED <<store, cost, mem, native, api, price_entity, ev, budget>>

NextAudit == Audit

SpecAudit == InitAudit /\ [][NextAudit]_vars

-----------------------------------------------------------------------------
(* SpecSteps: the scheduled cycle of one device, await by await.  `call`    *)
(* holds the tasks _state_update created and that have not returned, in     *)
(* the order of their creation, each with the step it is about to run and   *)
(* the locals it carries over its awaits.  The coordinator may refresh, and *)
(* the process may stop and the integration be set up again, between any    *)
(* two steps.                                                               *)

NewTask ==
    [pc |-> "start", done |-> <<>>, elt |-> None, reading |-> None,
     fetched |-> <<>>, data |-> <<>>, overlap |-> FALSE,
     base |-> <<None, None>>, price |-> None, cost_repaired |-> FALSE]

Remove(tasks, i) == SubSeq(tasks, 1, i - 1) \o SubSeq(tasks, i + 1, Len(tasks))

\* Mutant: the lock is never seen as held.
import_lock_locked_never(tasks) == FALSE

\* The steps of a scheduled cycle, all inside `async with self._import_lock`.
LockedSteps == {"resolve", "convert", "upsert", "cost", "seal"}

\* self._import_lock.locked(): a task holds the lock from its acquisition to
\* its return.
import_lock_locked(tasks) == \E i \in DOMAIN tasks : tasks[i].pc \in LockedSteps

\* Mutant: the cost rows are upserted before the consumption rows.
next_step_cost_first(pc, imports, priced) ==
    CASE pc = "resolve" -> "convert"
      [] pc = "convert" -> IF ~imports THEN "done"
                           ELSE IF priced THEN "cost" ELSE "upsert"
      [] pc = "cost" -> "upsert"
      [] pc = "upsert" -> "seal"
      [] OTHER -> "done"

\* The step of _handle_update_locked and centralized_import_statistics that
\* follows step pc.
next_step(pc, imports, priced) ==
    CASE pc = "resolve" -> "convert"
      [] pc = "convert" -> IF imports THEN "upsert" ELSE "done"
      [] pc = "upsert" -> IF priced THEN "cost" ELSE "seal"
      [] pc = "cost" -> "seal"
      [] OTHER -> "done"

Advance(t, pc, imports, priced) ==
    [t EXCEPT !.pc = next_step(pc, imports, priced),
              !.done = Append(@, pc)]

\* The cost rows centralized_import_statistics converts for task t.
CostDicts(t, cost_series) ==
    IF IsNone(t.price) THEN <<>>
    ELSE convert_cost_statistic_data(
             t.data, Val(t.price),
             async_get_stat_just_before(cost_series, t.data[1].dt)[2],
             t.base[1])

StepsEv(op, owed, owed_fetch, fetched, crashes) ==
    [op |-> op, owed |-> owed, owed_fetch |-> owed_fetch, fetched |-> fetched,
     crashes |-> crashes]

InitSteps ==
    /\ store = EmptySeries /\ cost = EmptySeries
    /\ mem = None /\ native = None /\ api = <<>>
    /\ price_entity \in BOOLEAN
    /\ ev = StepsEv("init", <<>>, <<>>, <<>>, 0)
    /\ budget = MaxPolls
    /\ call = <<>>

\* coordinator._async_update_data succeeded with `data` as the device's
\* history, then sensor._state_update.
Trigger ==
    \E data \in Fetches :
        /\ budget > 0
        /\ Len(call) < MaxTasks
        /\ budget' = budget - 1
        /\ api' = data
        /\ call' = IF Len(data) = 0 THEN call ELSE Append(call, NewTask)
        /\ ev' = [ev EXCEPT !.op = "trigger"]
        /\ UNCHANGED <<store, cost, mem, native, price_entity>>

\* _handle_update_async up to the acquisition of the lock, for the task
\* created first among those that have not started.
StartTask ==
    \E i \in DOMAIN call :
        /\ call[i].pc = "start"
        /\ \A j \in 1..(i - 1) : call[j].pc # "start"
        /\ IF import_lock_locked(call)
           THEN /\ call' = Remove(call, i)
                /\ ev' = [ev EXCEPT !.op = "dropped"]
           ELSE /\ call' = [call EXCEPT ![i].pc = "resolve"]
                /\ ev' = [ev EXCEPT !.op = "acquired"]
        /\ UNCHANGED <<store, cost, mem, native, api, price_entity, budget>>

\* _handle_update_locked: await _resolve_effective_last_imported_time().
StepResolve ==
    \E i \in DOMAIN call :
        /\ call[i].pc = "resolve"
        /\ \E r \in resolve_effective_last_imported_time(
                        World(store, cost, mem, native), price_entity) :
               /\ store' = r.w.store /\ cost' = r.w.cost
               /\ mem' = r.w.mem /\ native' = r.w.native
               /\ call' = [call EXCEPT ![i] =
                              [Advance(@, "resolve", FALSE, FALSE) EXCEPT
                                  !.elt = r.elt, !.reading = r.reading,
                                  !.cost_repaired = (r.w.cost # cost)]]
        /\ ev' = [ev EXCEPT !.op = "resolve"]
        /\ UNCHANGED <<api, price_entity, budget>>

\* _handle_update_locked from the filter to the conversion inside
\* centralized_import_statistics; with nothing to import the entity is
\* synced and the task returns.
StepConvert ==
    \E i \in DOMAIN call, ps \in PriceChoices :
        /\ call[i].pc = "convert"
        /\ LET t == call[i]
               filtered == filter_newer_data(api, t.elt)
               overshoot == /\ Len(filtered) = 0
                            /\ api # <<>>
                            /\ ~IsNone(t.elt)
                            /\ api[Len(api)].dt < Val(t.elt)
               data == IF overshoot THEN filter_newer_data(api, None)
                       ELSE filtered
           IN  /\ mem' = IF overshoot THEN None ELSE mem
               /\ IF Len(data) = 0
                  THEN /\ native' = IF ~IsNone(t.reading) /\ native # t.reading
                                    THEN t.reading ELSE native
                       /\ call' = Remove(call, i)
                       /\ ev' = [ev EXCEPT !.op = "done", !.fetched = api]
                  ELSE LET imp == centralized_import_statistics(
                                      store, cost, data, None)
                           price == resolve_price_per_unit(price_entity, ps)
                       IN  /\ call' = [call EXCEPT ![i] =
                                          [Advance(@, "convert", TRUE,
                                                   ~IsNone(price)) EXCEPT
                                              !.fetched = api, !.data = data,
                                              !.overlap = imp.overlap,
                                              !.base = imp.base,
                                              !.price = price]]
                           /\ ev' = [ev EXCEPT !.op = "convert"]
                           /\ UNCHANGED native
        /\ UNCHANGED <<store, cost, api, price_entity, budget>>

\* centralized_import_statistics: async_import_statistics of the
\* consumption rows.
StepUpsert ==
    \E i \in DOMAIN call :
        /\ call[i].pc = "upsert"
        /\ LET t == call[i]
           IN  /\ store' = ImportFrom(store, cost, t.data, None, t.overlap,
                                      t.base[1], t.base[2]).store
               /\ call' = [call EXCEPT ![i] =
                              Advance(@, "upsert", TRUE, ~IsNone(t.price))]
        /\ ev' = [ev EXCEPT !.op = "upsert"]
        /\ UNCHANGED <<cost, mem, native, api, price_entity, budget>>

\* centralized_import_statistics: the cost rows, converted from the row
\* before the first point and upserted.
StepCost ==
    \E i \in DOMAIN call :
        /\ call[i].pc = "cost"
        /\ LET t == call[i]
               cost_dicts == CostDicts(t, cost)
           IN  /\ cost' = IF cost_dicts = <<>> THEN cost
                          ELSE async_import_statistics(cost, cost_dicts,
                                                       "import")
               /\ call' = [call EXCEPT ![i] =
                              Advance(@, "cost", TRUE, ~IsNone(t.price))]
        /\ ev' = [ev EXCEPT !.op = "cost"]
        /\ UNCHANGED <<store, mem, native, api, price_entity, budget>>

\* _handle_update_locked after centralized_import_statistics returned: the
\* imported time is kept, the rows after it are sealed, the entity takes the
\* last reading and the task returns.
StepSeal ==
    \E i \in DOMAIN call :
        /\ call[i].pc = "seal"
        /\ LET t == call[i]
               rows == convert_statistic_data(t.data, t.base[2], t.base[1])
               last_imported == rows[Len(rows)]
               imported_time == t.data[Len(t.data)].dt
               db_tip_time == get_last_imported_stat(store)[1]
           IN  /\ store' = IF ~IsNone(db_tip_time)
                              /\ Val(db_tip_time) > imported_time
                           THEN async_write_carry_forward_stats(
                                    store, imported_time, Val(db_tip_time),
                                    last_imported.state,
                                    last_imported.sum).series
                           ELSE store
               /\ mem' = Some(imported_time)
               /\ native' = Some(t.data[Len(t.data)].reading)
               /\ call' = Remove(call, i)
               /\ ev' = [ev EXCEPT !.op = "done", !.fetched = t.fetched]
        /\ UNCHANGED <<cost, api, price_entity, budget>>

\* The process stops, every task with it, and the integration is set up
\* again (async_setup_entry, then async_added_to_hass).  ev.owed keeps the
\* cost rows of a task that was stopped between its two upserts, and
\* ev.owed_fetch the history it had fetched.
StopAndRestart ==
    \E restored \in {native, None} :
        LET last == get_last_imported_stat(store)
            last_stat_reading == last[2]
            reconciled == IF IsNone(last_stat_reading) THEN restored
                          ELSE IF restored # last_stat_reading
                               THEN last_stat_reading
                               ELSE restored
            cut == {i \in DOMAIN call : call[i].pc = "cost"}
        IN  /\ ev.crashes < MaxCrashes
            /\ call # <<>>
            /\ \E r \in resolve_effective_last_imported_time(
                            World(store, cost, last[1], reconciled),
                            price_entity) :
                   /\ store' = r.w.store /\ cost' = r.w.cost
                   /\ mem' = r.w.mem /\ native' = r.w.native
            /\ api' = <<>>
            /\ call' = <<>>
            /\ ev' = IF cut = {}
                     THEN StepsEv("restart", ev.owed, ev.owed_fetch, <<>>,
                                  ev.crashes + 1)
                     ELSE LET t == call[CHOOSE i \in cut : TRUE]
                          IN  StepsEv("restart", CostDicts(t, cost),
                                      t.fetched, <<>>, ev.crashes + 1)
            /\ UNCHANGED <<price_entity, budget>>

NextSteps ==
    \/ Trigger
    \/ StartTask
    \/ StepResolve
    \/ StepConvert
    \/ StepUpsert
    \/ StepCost
    \/ StepSeal
    \/ StopAndRestart

SpecSteps == InitSteps /\ [][NextSteps]_vars

-----------------------------------------------------------------------------
(* SpecRead: one coordinator refresh over the account's meters               *)
(* (coordinator.read_meters under the DataUpdateCoordinator), then the       *)
(* sensors' _state_update.  In this specification `call` is the coordinator  *)
(* (the read task of each meter, the refresh, last_update_success) and `api` *)
(* is each meter's last_historical_data: "none" before the first read,       *)
(* "empty" or "data" after.  An error message is the sequence of its         *)
(* fragments; `fragment in str(error)` looks for one of them.                *)

Meters == 1..NumMeters

DAYS_TO_LOAD == 3
FALLBACK_DAYS == 1

Contains(msg, fragment) == \E i \in DOMAIN msg : msg[i] = fragment

\* What one call of the metering client may do: return (a history with or
\* without data points) or raise EyeOnWaterAuthError or EyeOnWaterAPIError.
ReadOutcomes ==
    {[kind |-> "ok", history |-> "data", msg |-> <<>>],
     [kind |-> "ok", history |-> "empty", msg |-> <<>>],
     [kind |-> "EyeOnWaterAuthError", history |-> "none",
      msg |-> <<"bad creds">>],
     [kind |-> "EyeOnWaterAPIError", history |-> "none",
      msg |-> <<"json_invalid", "parse error">>],
     [kind |-> "EyeOnWaterAPIError", history |-> "none",
      msg |-> <<"unexpected", "EOF while parsing">>],
     [kind |-> "EyeOnWaterAPIError", history |-> "none",
      msg |-> <<"connection refused">>]}

NotCalled == [kind |-> "not called", history |-> "none", msg |-> <<>>]

ReadResult(raised, first, retry, days, history) ==
    [raised |-> raised, first |-> first, retry |-> retry, days |-> days,
     history |-> history]

\* Mutant: the empty-body signature is not recognised.
read_single_meter_no_fallback(info, hist, fallback) ==
    LET first == IF info.kind # "ok" THEN info ELSE hist
        days == IF info.kind # "ok" THEN <<>> ELSE <<DAYS_TO_LOAD>>
    IN  IF first.kind = "ok"
        THEN ReadResult("none", first, NotCalled, days, first.history)
        ELSE ReadResult("UpdateFailed", first, NotCalled, days, "none")

\* coordinator._read_single_meter, read_meter_info doing `info`, the read of
\* the history doing `hist` and the fallback read, when made, `fallback`.
\* days lists the look-backs of the history reads made; history is what
\* the meter's last_historical_data was set to ("none": not set).
read_single_meter(info, hist, fallback) ==
    LET first == IF info.kind # "ok" THEN info ELSE hist
        days == IF info.kind # "ok" THEN <<>> ELSE <<DAYS_TO_LOAD>>
    IN  IF first.kind = "ok"
        THEN ReadResult("none", first, NotCalled, days, first.history)
        ELSE IF first.kind = "EyeOnWaterAuthError"
        THEN ReadResult("UpdateFailed", first, NotCalled, days, "none")
        ELSE IF Contains(first.msg, "json_invalid")
                \/ Contains(first.msg, "EOF while parsing")
        THEN IF fallback.kind = "EyeOnWaterAuthError"
             THEN ReadResult("EyeOnWaterAuthError", first, fallback,
                             Append(days, FALLBACK_DAYS), "none")
             ELSE ReadResult("none", first, fallback,
                             Append(days, FALLBACK_DAYS), fallback.history)
        ELSE ReadResult("UpdateFailed", first, NotCalled, days, "none")

\* SpecReadOne: one call of _read_single_meter, for every outcome of its
\* three calls of the client.
InitReadOne ==
    /\ store = EmptySeries /\ cost = EmptySeries
    /\ mem = None /\ native = None
    /\ api = "none"
    /\ price_entity = FALSE
    /\ ev = ReadResult("none", NotCalled, NotCalled, <<>>, "none")
    /\ budget = 0
    /\ \E info \in ReadOutcomes, hist \in ReadOutcomes, fallback \in ReadOutcomes :
           call = [fn |-> "read_single_meter", info |-> info, hist |-> hist,
                   fallback |-> fallback, done |-> FALSE]

ReadOne ==
    /\ ~call.done
    /\ LET r == read_single_meter(call.info, call.hist, call.fallback)
       IN  /\ ev' = r
           /\ api' = IF r.history = "none" THEN api ELSE r.history
    /\ call' = [call EXCEPT !.done = TRUE]
    /\ UNCHANGED <<store, cost, mem, native, price_entity, budget>>

NextReadOne == ReadOne

SpecReadOne == InitReadOne /\ [][NextReadOne]_vars

PendingTask == [pc |-> "run"] @@ ReadResult("none", NotCalled, NotCalled, <<>>, "none")

IdleTask == [pc |-> "idle"] @@ ReadResult("none", NotCalled, NotCalled, <<>>, "none")

Coordinator(tasks, refresh, success) ==
    [tasks |-> tasks, refresh |-> refresh, last_update_success |-> success]

\* await asyncio.gather(*tasks) returned: it raises as soon as one task
\* has raised and returns when all have returned.
gather_succeeded(tasks) == \A m \in Meters : tasks[m].pc = "returned"

gather_raised(tasks) == \E m \in Meters : tasks[m].pc = "raised"

\* sensor._state_update of meter m after a refresh: TRUE when the task of a
\* reconciliation cycle is created.
state_update(success, history) ==
    IF ~success THEN FALSE
    ELSE IF history # "data" THEN FALSE
    ELSE TRUE

ReadEv(op, triggered) == [op |-> op, triggered |-> triggered]

InitRead ==
    /\ store = EmptySeries /\ cost = EmptySeries
    /\ mem = None /\ native = None
    /\ api = [m \in Meters |-> "none"]
    /\ price_entity = FALSE
    /\ ev = ReadEv("init", {})
    /\ budget = 0
    /\ call = Coordinator([m \in Meters |-> IdleTask], "idle", TRUE)

\* DataUpdateCoordinator starts a refresh: read_meters creates one read per
\* meter and awaits them together.
Refresh ==
    /\ call.refresh # "running"
    /\ \A m \in Meters : call.tasks[m].pc # "run"
    /\ call' = Coordinator([m \in Meters |-> PendingTask], "running",
                           call.last_update_success)
    /\ ev' = ReadEv("refresh", {})
    /\ UNCHANGED <<store, cost, mem, native, api, price_entity, budget>>

\* The read of one meter runs to its return or its exception.
ReadMeter ==
    \E m \in Meters, info \in ReadOutcomes, hist \in ReadOutcomes, fallback \in ReadOutcomes :
        /\ call.tasks[m].pc = "run"
        /\ LET r == read_single_meter(info, hist, fallback)
           IN  /\ call' = [call EXCEPT !.tasks[m] =
                              [pc |-> IF r.raised = "none" THEN "returned"
                                      ELSE "raised"] @@ r]
               /\ api' = IF r.history = "none" THEN api
                         ELSE [api EXCEPT ![m] = r.history]
        /\ ev' = ReadEv("read", ev.triggered)
        /\ UNCHANGED <<store, cost, mem, native, price_entity, budget>>

\* The refresh ends: the await of the gathered reads returns or raises,
\* the coordinator records the outcome and every sensor's _state_update
\* runs.  A read that has not finished when another raised keeps running.
FinishRefresh ==
    /\ call.refresh = "running"
    /\ gather_raised(call.tasks) \/ gather_succeeded(call.tasks)
    /\ LET success == gather_succeeded(call.tasks)
       IN  /\ call' = [call EXCEPT !.refresh = "done",
                                   !.last_update_success = success]
           /\ ev' = ReadEv("finish",
                           {m \in Meters : state_update(success, api[m])})
    /\ UNCHANGED <<store, cost, mem, native, api, price_entity, budget>>

NextRead == Refresh \/ ReadMeter \/ FinishRefresh

SpecRead == InitRead /\ [][NextRead]_vars

-----------------------------------------------------------------------------
(* The series ids of two devices of one account: sensor.async_setup_entry   *)
(* names the consumption series and the cost series of every meter.         *)

MaxIdLen == 2

MeterIds == UNION {[1..n -> IdChars] : n \in 1..MaxIdLen}

InitIds ==
    /\ store = EmptySeries /\ cost = EmptySeries
    /\ mem = None /\ native = None
    /\ api = <<>>
    /\ price_entity = FALSE
    /\ ev = [statistic_id |-> <<>>, cost_stat_id |-> <<>>]
    /\ budget = 0
    /\ \E a \in MeterIds, b \in MeterIds :
           call = [fn |-> "async_setup_entry", meter_id |-> <<a, b>>,
                   done |-> FALSE]

NameSeries ==
    /\ ~call.done
    /\ ev' = [statistic_id |-> [i \in 1..2 |-> get_entity_statistic_id(call.meter_id[i])],
              cost_stat_id |-> [i \in 1..2 |-> get_cost_statistic_id(call.meter_id[i])]]
    /\ call' = [call EXCEPT !.done = TRUE]
    /\ UNCHANGED <<store, cost, mem, native, api, price_entity, budget>>

NextIds == NameSeries

SpecIds == InitIds /\ [][NextIds]_vars

-----------------------------------------------------------------------------
(* SpecInterleave: the scheduled cycle of one device, await by await, next  *)
(* to the two other coroutines that touch the device's series: the startup  *)
(* pass of sensor.async_added_to_hass and the import_historical_data        *)
(* service of the coordinator.  `call` holds the three kinds of task.       *)

\* async_added_to_hass after async_add_listener: the listener is registered,
\* the startup repair has not run.
StartupTask == [NewTask EXCEPT !.pc = "added"]

\* import_historical_data after the history was read.
ManualTask(data) == [NewTask EXCEPT !.pc = "manual_read", !.data = data]

InitInterleave ==
    /\ store = EmptySeries /\ cost = EmptySeries
    /\ mem = None /\ native = None /\ api = <<>>
    /\ price_entity = FALSE
    /\ ev = StepsEv("init", <<>>, <<>>, <<>>, 0)
    /\ budget = MaxTasks
    /\ call = <<StartupTask>>

\* async_added_to_hass: await self._resolve_effective_last_imported_time(),
\* outside the lock.
StartupRepair ==
    \E i \in DOMAIN call :
        /\ call[i].pc = "added"
        /\ \E r \in resolve_effective_last_imported_time(
                        World(store, cost, mem, native), price_entity) :
               /\ store' = r.w.store /\ cost' = r.w.cost
               /\ mem' = r.w.mem /\ native' = r.w.native
        /\ call' = Remove(call, i)
        /\ ev' = [ev EXCEPT !.op = "startup"]
        /\ UNCHANGED <<api, price_entity, budget>>

\* The import_historical_data service is called and the client returns
\* `data` as the device's history.
ManualStart ==
    \E data \in Fetches :
        /\ budget > 0
        /\ Len(call) < MaxTasks
        /\ budget' = budget - 1
        /\ call' = IF Len(data) = 0 THEN call ELSE Append(call, ManualTask(data))
        /\ ev' = [ev EXCEPT !.op = "manual"]
        /\ UNCHANGED <<store, cost, mem, native, api, price_entity>>

\* centralized_import_statistics called by the service, up to the
\* conversion: the base is read from the store.
ManualRead ==
    \E i \in DOMAIN call :
        /\ call[i].pc = "manual_read"
        /\ LET imp == centralized_import_statistics(store, cost, call[i].data, None)
           IN  call' = [call EXCEPT ![i].pc = "manual_upsert",
                                    ![i].overlap = imp.overlap,
                                    ![i].base = imp.base]
        /\ ev' = [ev EXCEPT !.op = "manual_read"]
        /\ UNCHANGED <<store, cost, mem, native, api, price_entity, budget>>

\* centralized_import_statistics called by the service: the upsert of the
\* converted rows, then the purge of the rows after the last imported one
\* when the call asks for it.
ManualUpsert ==
    \E i \in DOMAIN call, purge_states \in BOOLEAN :
        /\ call[i].pc = "manual_upsert"
        /\ LET t == call[i]
               imported == ImportFrom(store, cost, t.data, None, t.overlap, t.base[1], t.base[2]).store
           IN  store' = IF purge_states
                        THEN async_delete_statistics_after(imported, t.data[Len(t.data)].dt)
                        ELSE imported
        /\ call' = Remove(call, i)
        /\ ev' = [ev EXCEPT !.op = "manual_upsert"]
        /\ UNCHANGED <<cost, mem, native, api, price_entity, budget>>

NextInterleave ==
    \/ Trigger
    \/ StartTask
    \/ StepResolve
    \/ StepConvert
    \/ StepUpsert
    \/ StepSeal
    \/ StartupRepair
    \/ ManualStart
    \/ ManualRead
    \/ ManualUpsert

SpecInterleave == InitInterleave /\ [][NextInterleave]_vars

-----------------------------------------------------------------------------
(* SpecResolve: one call of sensor._resolve_effective_last_imported_time,   *)
(* without a price source, on a consumption series of any rows, any         *)
(* in-memory time and any entity state.  ev keeps the world before the      *)
(* call, the outcome of the branches (b) and the outcome of the call (r).   *)

\* Series of any rows at the engine's hours: state and sum absent or at
\* either end of the range.
ResolveStores ==
    UNION {[D -> {StoredRow(st, sm, "import") :
                      st \in {None, Some(0), Some(MaxMeter)},
                      sm \in {None, Some(0), Some(MaxMeter)}}] :
           D \in SUBSET Slots}

\* The in-memory time: none, or an hour up to one past the last slot.
ResolveTimes == {None} \cup {Some(h * HOUR) : h \in 0..(MaxSlot + 1)}

InitResolve ==
    /\ store \in ResolveStores /\ cost = EmptySeries
    /\ mem \in ResolveTimes
    /\ native \in {None, Some(0), Some(MaxMeter)}
    /\ api = <<>>
    /\ price_entity = FALSE
    /\ ev = [op |-> "init"]
    /\ budget = 0
    /\ call = [fn |-> "resolve", done |-> FALSE]

Resolve ==
    /\ call.fn = "resolve" /\ ~call.done
    /\ LET pre == World(store, cost, mem, native)
       IN  \E r \in resolve_effective_last_imported_time(pre, price_entity) :
               /\ store' = r.w.store /\ cost' = r.w.cost
               /\ mem' = r.w.mem /\ native' = r.w.native
               /\ ev' = [op |-> "resolve", pre |-> pre,
                         b |-> ResolveBranches(pre), r |-> r]
    /\ call' = [call EXCEPT !.done = TRUE]
    /\ UNCHANGED <<api, price_entity, budget>>

NextResolve == Resolve

SpecResolve == InitResolve /\ [][NextResolve]_vars

-----------------------------------------------------------------------------
(* SpecCycle: one scheduled cycle (sensor._handle_update_locked), without a *)
(* price source, on a fetched history, a consumption series of any complete *)
(* rows, any in-memory time and any entity state.  ev keeps the world       *)
(* before the cycle, the outcome of the branches of the resolution (b),     *)
(* the resolved baseline (r) and the cycle's outcome.                       *)

\* Series of any rows at the engine's hours: state and sum at either end of
\* the range, not both at its upper end.
CycleStores ==
    UNION {[D -> {StoredRow(Some(v[1]), Some(v[2]), "import") :
                      v \in {<<0, 0>>, <<MaxMeter, 0>>, <<0, MaxMeter>>}}] :
           D \in SUBSET Slots}

InitCycle ==
    /\ store \in CycleStores /\ cost = EmptySeries
    /\ mem \in ResolveTimes
    /\ native \in {None, Some(MaxMeter)}
    /\ api \in Fetches
    /\ price_entity = FALSE
    /\ ev = [op |-> "init"]
    /\ budget = 0
    /\ call = [fn |-> "cycle", done |-> FALSE]

Cycle ==
    /\ call.fn = "cycle" /\ ~call.done
    /\ LET pre == World(store, cost, mem, native)
       IN  \E r \in resolve_effective_last_imported_time(pre, price_entity) :
               LET out == HandleResolved(r, api, None)
               IN  /\ store' = out.w.store /\ cost' = out.w.cost
                   /\ mem' = out.w.mem /\ native' = out.w.native
                   /\ ev' = [op |-> "cycle", pre |-> pre, data |-> api,
                             b |-> ResolveBranches(pre), r |-> r,
                             out |-> out]
    /\ call' = [call EXCEPT !.done = TRUE]
    /\ UNCHANGED <<api, price_entity, budget>>

NextCycle == Cycle

SpecCycle == InitCycle /\ [][NextCycle]_vars

-----------------------------------------------------------------------------
(* SpecLive: the scheduled cycles of one device, await by await, where an   *)
(* awaited store operation may raise.  The event loop runs every task that  *)
(* is ready and every awaited recorder job returns or raises, so each step  *)
(* of a task is weakly fair; triggers are not.                              *)

\* Mutant: the lock is not released when the cycle raises.
async_with_exit_held(tasks, i) == [tasks EXCEPT ![i].pc = "cost"]

\* `async with self._import_lock` left by an exception: the lock is released
\* and the task ends with the exception.
async_with_exit(tasks, i) == Remove(tasks, i)

InitLive ==
    /\ store = EmptySeries /\ cost = EmptySeries
    /\ mem = None /\ native = None /\ api = <<>>
    /\ price_entity = FALSE
    /\ ev = StepsEv("init", <<>>, <<>>, <<>>, 0) @@ [raised |-> 0]
    /\ budget = MaxTasks
    /\ call = <<>>

\* A store operation awaited by the cycle raises: the exception leaves
\* _handle_update_locked and the `async with` block.
StepRaise ==
    \E i \in DOMAIN call :
        /\ call[i].pc \in LockedSteps
        /\ ev.raised < MaxCrashes
        /\ call' = async_with_exit(call, i)
        /\ ev' = [ev EXCEPT !.op = "raised", !.raised = @ + 1]
        /\ UNCHANGED <<store, cost, mem, native, api, price_entity, budget>>

NextLive ==
    \/ Trigger
    \/ StartTask
    \/ StepResolve
    \/ StepConvert
    \/ StepUpsert
    \/ StepSeal
    \/ StepRaise

SpecLive ==
    /\ InitLive /\ [][NextLive]_vars
    /\ WF_vars(StartTask) /\ WF_vars(StepResolve) /\ WF_vars(StepConvert)
    /\ WF_vars(StepUpsert) /\ WF_vars(StepSeal)

-----------------------------------------------------------------------------
(* SpecMirror: one call of sensor._resolve_effective_last_imported_time     *)
(* with or without a price source, on any consumption series and any cost   *)
(* series.  ev keeps the world before the call and the outcome (r).         *)

\* Consumption series of any rows at the engine's hours, the sum at either
\* end of the range.
MirrorStores ==
    UNION {[D -> {StoredRow(Some(0), Some(sm), "import") : sm \in {0, MaxMeter}}] :
           D \in SUBSET Slots}

\* Cost series as the engine writes them: state equal to sum in every row.
CostStores ==
    UNION {[D -> {StoredRow(Some(c), Some(c), "import") : c \in {0, MaxMeter}}] :
           D \in SUBSET Slots}

InitMirror ==
    /\ store \in MirrorStores /\ cost \in CostStores
    /\ mem \in ResolveTimes
    /\ native \in {None, Some(MaxMeter)}
    /\ api = <<>>
    /\ price_entity \in BOOLEAN
    /\ ev = [op |-> "init"]
    /\ budget = 0
    /\ call = [fn |-> "resolve", done |-> FALSE]

Mirror ==
    /\ call.fn = "resolve" /\ ~call.done
    /\ LET pre == World(store, cost, mem, native)
       IN  \E r \in resolve_effective_last_imported_time(pre, price_entity) :
               /\ store' = r.w.store /\ cost' = r.w.cost
               /\ mem' = r.w.mem /\ native' = r.w.native
               /\ ev' = [op |-> "resolve", pre |-> pre, r |-> r]
    /\ call' = [call EXCEPT !.done = TRUE]
    /\ UNCHANGED <<api, price_entity, budget>>

NextMirror == Mirror

SpecMirror == InitMirror /\ [][NextMirror]_vars

-----------------------------------------------------------------------------
(* SpecTwice: consecutive calls of                                          *)
(* sensor._resolve_effective_last_imported_time with nothing written in     *)
(* between (the startup pass and the first cycle, or cycles without new     *)
(* readings), on a consumption series of any complete rows.  ev keeps the   *)
(* world before the last call, its outcome (r) and what the call before it  *)
(* repaired.                                                                *)

MaxResolutions == 2

\* Series of any complete rows at the engine's hours.
TwiceStores ==
    UNION {[D -> {StoredRow(Some(st), Some(sm), "import") :
                      st \in {0, MaxMeter}, sm \in {0, MaxMeter}}] :
           D \in SUBSET Slots}

InitTwice ==
    /\ store \in TwiceStores /\ cost = EmptySeries
    /\ mem \in ResolveTimes
    /\ native \in {None, Some(0), Some(MaxMeter)}
    /\ api = <<>>
    /\ price_entity = FALSE
    /\ ev = [op |-> "init"]
    /\ budget = 0
    /\ call = [fn |-> "resolve", runs |-> 0]

ResolveAgain ==
    /\ call.fn = "resolve" /\ call.runs < MaxResolutions
    /\ LET pre == World(store, cost, mem, native)
       IN  \E r \in resolve_effective_last_imported_time(pre, price_entity) :
               /\ store' = r.w.store /\ cost' = r.w.cost
               /\ mem' = r.w.mem /\ native' = r.w.native
               /\ ev' = [op |-> "resolve", run |-> call.runs + 1,
                         pre |-> pre, r |-> r,
                         before |-> IF call.runs = 0 THEN None
                                    ELSE Some([ahead |-> ev.r.ahead,
                                               mono |-> ev.r.mono])]
    /\ call' = [call EXCEPT !.runs = @ + 1]
    /\ UNCHANGED <<api, price_entity, budget>>

NextTwice == ResolveAgain

SpecTwice == InitTwice /\ [][NextTwice]_vars

-----------------------------------------------------------------------------
(* SpecAgain: consecutive scheduled cycles of one device with the same      *)
(* fetched history and nothing else writing to the store.  ev keeps the     *)
(* world before the last cycle, its outcome, and the trace of the cycle     *)
(* before it.                                                               *)

MaxCycles == 2

InitAgain ==
    /\ store \in CycleStores /\ cost = EmptySeries
    /\ mem \in ResolveTimes
    /\ native \in {None, Some(MaxMeter)}
    /\ api \in Fetches
    /\ price_entity = FALSE
    /\ ev = [op |-> "init"]
    /\ budget = 0
    /\ call = [fn |-> "cycle", runs |-> 0]

CycleAgain ==
    /\ call.fn = "cycle" /\ call.runs < MaxCycles
    /\ LET pre == World(store, cost, mem, native)
       IN  \E out \in handle_update_locked(pre, api, price_entity, None) :
               /\ store' = out.w.store /\ cost' = out.w.cost
               /\ mem' = out.w.mem /\ native' = out.w.native
               /\ ev' = [op |-> "cycle", run |-> call.runs + 1,
                         pre |-> pre, data |-> api, out |-> out,
                         before |-> IF call.runs = 0 THEN None
                                    ELSE Some(ev.out.trace)]
    /\ call' = [call EXCEPT !.runs = @ + 1]
    /\ UNCHANGED <<api, price_entity, budget>>

NextAgain == CycleAgain

SpecAgain == InitAgain /\ [][NextAgain]_vars

-----------------------------------------------------------------------------
(* SpecQuiet: one scheduled cycle of a device with a configured price       *)
(* entity, on any consumption series, any cost series, any in-memory time   *)
(* and any fetched history.  ev keeps the world before the cycle, the       *)
(* fetched history and the cycle's outcome.                                 *)

\* Cost series: no row, or one row at 00:00 that a cost repair would carry
\* forward.
QuietCosts ==
    {[t \in D |-> StoredRow(Some(MaxMeter), Some(MaxMeter), "import")] :
         D \in {{}, {0}}}

InitQuiet ==
    /\ store \in MirrorStores /\ cost \in QuietCosts
    /\ mem \in ResolveTimes
    /\ native \in {None, Some(MaxMeter)}
    /\ api \in Fetches
    /\ price_entity = TRUE
    /\ ev = [op |-> "init"]
    /\ budget = 0
    /\ call = [fn |-> "cycle", done |-> FALSE]

QuietCycle ==
    /\ call.fn = "cycle" /\ ~call.done
    /\ LET pre == World(store, cost, mem, native)
       IN  \E ps \in PriceChoices :
           \E out \in handle_update_locked(
                          pre, api, price_entity,
                          resolve_price_per_unit(price_entity, ps)) :
               /\ store' = out.w.store /\ cost' = out.w.cost
               /\ mem' = out.w.mem /\ native' = out.w.native
               /\ ev' = [op |-> "cycle", pre |-> pre, data |-> api,
                         out |-> out]
    /\ call' = [call EXCEPT !.done = TRUE]
    /\ UNCHANGED <<api, price_entity, budget>>

NextQuiet == QuietCycle

SpecQuiet == InitQuiet /\ [][NextQuiet]_vars

-----------------------------------------------------------------------------
(* SpecRerun: coordinator.import_historical_data for one device, run again  *)
(* with the same fetched history and the same options and nothing else      *)
(* writing to the store.  The series may hold a row from before the          *)
(* look-back window of async_get_stat_just_before.  ev keeps the series      *)
(* before the last run and the series the first run left.                    *)

MaxRuns == 2

\* An hour 365 days before 00:00: inside the look-back window of a history
\* that starts at 00:00, outside the window of one that starts later.
LongAgo == 0 - LOOKBACK_DAYS * 24 * HOUR

RerunStores ==
    UNION {[D -> {StoredRow(Some(st), Some(sm), "import") :
                      st \in {0, MaxMeter}, sm \in {0, MaxMeter}}] :
           D \in SUBSET (Slots \cup {LongAgo})}

InitRerun ==
    /\ store \in RerunStores /\ cost = EmptySeries
    /\ mem = None /\ native = None
    /\ api \in Fetches
    /\ price_entity = FALSE
    /\ ev = [op |-> "init"]
    /\ budget = 0
    /\ call \in {[fn |-> "manual", runs |-> 0, purge_states |-> p] :
                     p \in BOOLEAN}

ImportAgain ==
    /\ call.fn = "manual" /\ call.runs < MaxRuns
    /\ IF Len(api) = 0
       THEN UNCHANGED <<store, cost>>
       ELSE LET imp == centralized_import_statistics(store, cost, api, None)
                last_import_dt == api[Len(api)].dt
            IN  /\ store' = IF call.purge_states
                            THEN async_delete_statistics_after(
                                     imp.store, last_import_dt)
                            ELSE imp.store
                /\ cost' = IF call.purge_states
                           THEN async_delete_statistics_after(
                                    imp.cost, last_import_dt)
                           ELSE imp.cost
    /\ ev' = [op |-> "manual", run |-> call.runs + 1,
              pre |-> store,
              first |-> IF call.runs = 0 THEN store' ELSE ev.first,
              kind |-> IF call.runs > 0 THEN ev.kind
                       ELSE IF DOMAIN store = {} \/ Len(api) = 0 THEN "fresh"
                       ELSE IF api[1].dt <= LastStart(store) THEN "backfill"
                       ELSE "continuation"]
    /\ call' = [call EXCEPT !.runs = @ + 1]
    /\ UNCHANGED <<mem, native, api, price_entity, budget>>

NextRerun == ImportAgain

SpecRerun == InitRerun /\ [][NextRerun]_vars

-----------------------------------------------------------------------------
(* SpecBatch: coordinator.import_historical_data over the account's         *)
(* devices, one iteration of its loop after another, the purge of a device  *)
(* as a step of its own.  In this specification store and cost hold the     *)
(* series of every device, api what the metering client does for each       *)
(* device (read_meter_info, then read_historical_data), and call the loop:  *)
(* the index of the device in turn, the step, the options, the devices      *)
(* imported so far, whether an exception left the loop, and the series at   *)
(* the start.                                                               *)

BatchMeters == <<"meter_a", "meter_b">>

MaxBatchFetch == 1

\* Series with no row or with a row at every hour of the engine.
BatchStores ==
    {[t \in D |-> StoredRow(Some(0), Some(0), "compiler")] : D \in {{}, Slots}}

\* What the two reads of one device may do: return, or raise
\* EyeOnWaterAuthError or EyeOnWaterAPIError; the history read returns at
\* most MaxBatchFetch data points.
BatchOutcomes ==
    {[info |-> "ok", hist |-> "ok", data |-> d] :
         d \in {f \in Fetches : Len(f) <= MaxBatchFetch}}
    \cup {[info |-> k, hist |-> "not called", data |-> <<>>] :
              k \in {"EyeOnWaterAuthError", "EyeOnWaterAPIError"}}
    \cup {[info |-> "ok", hist |-> k, data |-> <<>>] :
              k \in {"EyeOnWaterAuthError", "EyeOnWaterAPIError"}}

Raised(o) == IF o.info # "ok" THEN o.info ELSE o.hist

\* Mutant: only API errors are caught.
import_historical_data_except_api_only(kind) == kind = "EyeOnWaterAPIError"

\* except (EyeOnWaterAPIError, EyeOnWaterAuthError) inside the loop.
import_historical_data_except(kind) ==
    kind \in {"EyeOnWaterAPIError", "EyeOnWaterAuthError"}

InitBatch ==
    /\ store \in [{BatchMeters[i] : i \in DOMAIN BatchMeters} -> BatchStores]
    /\ cost \in [{BatchMeters[i] : i \in DOMAIN BatchMeters} -> BatchStores]
    /\ api \in [{BatchMeters[i] : i \in DOMAIN BatchMeters} -> BatchOutcomes]
    /\ mem = None /\ native = None
    /\ price_entity = FALSE
    /\ ev = [op |-> "init"]
    /\ budget = 0
    /\ call \in {[fn |-> "manual", idx |-> 1, pc |-> "fetch",
                  purge_states |-> p, price_per_unit |-> q,
                  imported |-> {}, raised |-> FALSE,
                  start |-> [store |-> store, cost |-> cost]] :
                     p \in BOOLEAN, q \in {None, Some(2)}}

\* One iteration up to the upsert: the two reads, the empty-history skip and
\* centralized_import_statistics.
BatchImport ==
    /\ call.fn = "manual" /\ ~call.raised
    /\ call.idx <= Len(BatchMeters) /\ call.pc = "fetch"
    /\ LET meter == BatchMeters[call.idx]
           o == api[meter]
           pre == [store |-> store, cost |-> cost]
       IN  IF Raised(o) # "ok"
           THEN /\ UNCHANGED <<store, cost>>
                /\ IF import_historical_data_except(Raised(o))
                   THEN call' = [call EXCEPT !.idx = @ + 1]
                   ELSE call' = [call EXCEPT !.raised = TRUE]
                /\ ev' = [op |-> "import", meter |-> meter, pre |-> pre,
                          outcome |-> "caught", after_import |-> FALSE]
           ELSE IF o.data = <<>>
           THEN /\ UNCHANGED <<store, cost>>
                /\ call' = [call EXCEPT !.idx = @ + 1]
                /\ ev' = [op |-> "import", meter |-> meter, pre |-> pre,
                          outcome |-> "skipped", after_import |-> FALSE]
           ELSE LET imp == centralized_import_statistics(
                               store[meter], cost[meter], o.data,
                               call.price_per_unit)
                IN  /\ store' = [store EXCEPT ![meter] = imp.store]
                    /\ cost' = [cost EXCEPT ![meter] = imp.cost]
                    /\ call' = IF call.purge_states
                               THEN [call EXCEPT !.pc = "purge",
                                                 !.imported = @ \cup {meter}]
                               ELSE [call EXCEPT !.idx = @ + 1,
                                                 !.imported = @ \cup {meter}]
                    /\ ev' = [op |-> "import", meter |-> meter, pre |-> pre,
                              outcome |-> "imported", after_import |-> FALSE]
    /\ UNCHANGED <<mem, native, api, price_entity, budget>>

\* The same iteration under `if purge_states:`.
BatchPurge ==
    /\ call.fn = "manual" /\ ~call.raised
    /\ call.idx <= Len(BatchMeters) /\ call.pc = "purge"
    /\ LET meter == BatchMeters[call.idx]
           prepared_data == api[meter].data
           last_import_dt == prepared_data[Len(prepared_data)].dt
       IN  /\ store' = [store EXCEPT ![meter] =
                            async_delete_statistics_after(@, last_import_dt)]
           /\ cost' = [cost EXCEPT ![meter] =
                           async_delete_statistics_after(@, last_import_dt)]
           /\ ev' = [op |-> "purge", meter |-> meter,
                     pre |-> [store |-> store, cost |-> cost],
                     outcome |-> "purged",
                     after_import |-> /\ ev.op = "import"
                                      /\ ev.meter = meter
                                      /\ ev.outcome = "imported"]
    /\ call' = [call EXCEPT !.idx = @ + 1, !.pc = "fetch"]
    /\ UNCHANGED <<mem, native, api, price_entity, budget>>

NextBatch == BatchImport \/ BatchPurge

SpecBatch == InitBatch /\ [][NextBatch]_vars

-----------------------------------------------------------------------------
(* SpecFilter: one call of filter_newer_data on bounded inputs. *)

Cutoffs == {None} \cup {Some(t) : t \in Times}

InitFilter ==
    /\ store = EmptySeries /\ cost = EmptySeries
    /\ mem = None /\ native = None /\ api = <<>>
    /\ price_entity = FALSE /\ ev = IdleEv /\ budget = 0
    /\ call \in [fn : {"filter"}, data : ReadingSeqs(MaxLen),
                 last_imported_time : Cutoffs, out : {<<>>}, done : {FALSE}]

Filter ==
    /\ call.fn = "filter" /\ ~call.done
    /\ call' = [call EXCEPT
                  !.out = filter_newer_data(call.data, call.last_imported_time),
                  !.done = TRUE]
    /\ UNCHANGED <<store, cost, mem, native, api, price_entity, ev, budget>>

NextFilter == Filter

SpecFilter == InitFilter /\ [][NextFilter]_vars

-----------------------------------------------------------------------------
(* SpecResolveId: one call of statistics_tools.resolve_statistic_id on      *)
(* bounded arguments.  An argument that is None or the empty string is the  *)
(* empty sequence.                                                          *)

InitResolveId ==
    /\ store = EmptySeries /\ cost = EmptySeries
    /\ mem = None /\ native = None /\ api = <<>>
    /\ price_entity = FALSE /\ ev = IdleEv /\ budget = 0
    /\ call \in [fn : {"resolve_statistic_id"},
                 statistic_id : {<<>>, <<"sensor.custom_meter">>,
                                 <<ENTITY_PREFIX, "1">>},
                 entity_id : {<<>>, <<"sensor.other_sensor">>}
                             \cup {<<ENTITY_PREFIX>> \o id : id \in MeterIds},
                 meter_id : {<<>>} \cup MeterIds,
                 out : {<<>>}, done : {FALSE}]

ResolveId ==
    /\ call.fn = "resolve_statistic_id" /\ ~call.done
    /\ call' = [call EXCEPT
                  !.out = resolve_statistic_id(call.statistic_id,
                                               call.entity_id, call.meter_id),
                  !.done = TRUE]
    /\ UNCHANGED <<store, cost, mem, native, api, price_entity, ev, budget>>

NextResolveId == ResolveId

SpecResolveId == InitResolveId /\ [][NextResolveId]_vars

-----------------------------------------------------------------------------
(* Properties of the engine. *)

\* The sums of a series are non-decreasing in start order.
Mono(series) ==
    \A t, u \in DOMAIN series :
        (t < u /\ ~IsNone(series[t].sum) /\ ~IsNone(series[u].sum))
            => Val(series[t].sum) <= Val(series[u].sum)

EngineOps == {"poll", "manual", "restart"}

\* C1: if the stored sums of the consumption series are non-decreasing in
\* start order before an engine operation (scheduled cycle, manual import,
\* carry-forward repair, seal), they are non-decreasing after it.
C1_EnginePreservesMonotonicSums ==
    [][(ev'.op \in EngineOps /\ Mono(store)) => Mono(store')]_vars

\* The row at t was written by an import and its sum is above the sum of the
\* row before it: it holds real consumption.
RealConsumption(series, t) ==
    /\ series[t].by = "import"
    /\ \E p \in DOMAIN series :
           /\ p < t
           /\ \A q \in DOMAIN series : ~(p < q /\ q < t)
           /\ Val(series[p].sum) < Val(series[t].sum)

\* C2: no stored row that holds real consumption written by an engine import
\* is ever replaced by a carry-forward row.
C2_CarryNeverReplacesImport ==
    [][\A t \in DOMAIN store :
           RealConsumption(store, t)
               => ~(t \in DOMAIN store' /\ store'[t].by = "carry")]_vars

MaxOf(S) == CHOOSE t \in S : \A u \in S : u <= t

ImportOps == {"manual", "import"}

\* C3: in an import (a call of centralized_import_statistics on the stored
\* series and the fetched history), the delta base is the last stored row strictly
\* before the first imported timestamp when that timestamp is at or before
\* the start of the store's last row, and the store's last row when it is
\* after; the first imported row's sum is base.sum + (first reading -
\* base.state).
C3_BackfillBase ==
    [][(ev'.op \in ImportOps /\ api' # <<>> /\ DOMAIN store # {}) =>
          LET first == api'[1]
              tip == MaxOf(DOMAIN store)
              before == {t \in DOMAIN store : t < first.dt}
              b == IF first.dt <= tip THEN MaxOf(before) ELSE tip
          IN  (first.dt > tip \/ before # {}) =>
                  /\ ev'.overlap = (first.dt <= tip)
                  /\ ev'.base = <<store[b].state, store[b].sum>>
                  /\ store'[first.dt].sum =
                         Some(Val(store[b].sum)
                              + (first.reading - Val(store[b].state)))]_vars

\* A backfill whose base row is not the row the store ends with: the old
\* tip is still stored after the import and continuing from it would have
\* given another first sum.
C3_Witness ==
    /\ ev.op \in ImportOps /\ ev.overlap /\ ~ev.purge /\ ev.n > 0
    /\ ~IsNone(ev.base[1]) /\ ~IsNone(ev.base[2])
    /\ LET first == api[1]
           tip == MaxOf(DOMAIN store)
       IN  /\ tip > api[Len(api)].dt
           /\ store[first.dt].sum =
                  Some(Val(ev.base[2]) + (first.reading - Val(ev.base[1])))
           /\ store[first.dt].sum #
                  Some(Val(store[tip].sum)
                       + (first.reading - Val(store[tip].state)))

RECURSIVE RunningMax(_, _)
RunningMax(data, i) ==
    IF i = 1 THEN data[1].reading
    ELSE Max(data[i].reading, RunningMax(data, i - 1))

\* C7: in an import that overlaps stored data with no stored row
\* strictly before the first imported timestamp, the base is (none, none),
\* the first imported row gets sum 0 and every later row holds the
\* consumption accumulated since the first.
C7_BackfillNoPriorRow ==
    [][(ev'.op \in ImportOps /\ api' # <<>> /\ DOMAIN store # {}
        /\ api'[1].dt <= MaxOf(DOMAIN store)
        /\ \A t \in DOMAIN store : ~(t < api'[1].dt)) =>
          /\ ev'.base = <<None, None>>
          /\ store'[api'[1].dt].sum = Some(0)
          /\ \A i \in 1..Len(api') :
                 store'[api'[i].dt].sum =
                     Some(RunningMax(api', i) - api'[1].reading)]_vars

\* An overlapping import with no row before it, of two readings with usage
\* between them, over a store whose tip has another sum.
C7_Witness ==
    /\ ev.op \in ImportOps /\ ev.overlap /\ ev.n = 2 /\ ~ev.purge
    /\ ev.base = <<None, None>>
    /\ store[api[1].dt].sum = Some(0)
    /\ store[api[2].dt].sum = Some(1)
    /\ MaxOf(DOMAIN store) > api[2].dt
    /\ store[MaxOf(DOMAIN store)].sum = Some(0)

\* The sums of the series rise to their maximum at the row at a and every
\* later row is below it.
RiseThenReset(series, a) ==
    /\ a \in DOMAIN series
    /\ \A t, u \in DOMAIN series :
           (t < u /\ u <= a) => Val(series[t].sum) <= Val(series[u].sum)
    /\ \A t \in DOMAIN series :
           t > a => Val(series[t].sum) < Val(series[a].sum)
    /\ \E t \in DOMAIN series : t > a

\* C8: when the stored sums rise to a maximum and are then reset, the sweep
\* anchors at the row with the maximum sum, writes a carried sum of at least
\* the anchor's sum to every row after the anchor, and all stored sums are
\* non-decreasing afterwards.  (Steps in which the sweep is the only writer:
\* a restart, or a cycle that imports nothing, without a "DB ahead" repair.)
C8_SweepRestoresMonotonicity ==
    [][(/\ ev'.op \in {"poll", "restart"} /\ ev'.branch # "none"
        /\ ev'.n = 0 /\ ~ev'.ahead
        /\ \E a \in DOMAIN store : RiseThenReset(store, a)) =>
          LET a == CHOOSE x \in DOMAIN store : RiseThenReset(store, x)
          IN  /\ ev'.mono /\ ev'.anchor = Some(a)
              /\ \A t \in DOMAIN store :
                     t > a => /\ store'[t].by = "carry"
                              /\ Val(store'[t].sum) >= Val(store[a].sum)
              /\ Mono(store')]_vars

\* C11: when the series has no row while the in-memory last-imported time is
\* set, baseline resolution returns no baseline, clears the in-memory time
\* and writes nothing; the same cycle imports every fetched reading, the
\* first with sum 0.
C11_EmptyStoreReset ==
    [][(ev'.op = "poll" /\ api' # <<>> /\ DOMAIN store = {} /\ ~IsNone(mem)) =>
          /\ \A r \in resolve_effective_last_imported_time(
                          World(store, cost, mem, native), price_entity) :
                 /\ IsNone(r.elt) /\ IsNone(r.w.mem)
                 /\ r.w.store = store /\ r.w.cost = cost
          /\ ev'.branch = "empty" /\ ev'.n = Len(api')
          /\ ev'.base = <<None, None>>
          /\ DOMAIN store' = {api'[i].dt : i \in 1..Len(api')}
          /\ \A i \in 1..Len(api') :
                 /\ store'[api'[i].dt].by = "import"
                 /\ store'[api'[i].dt].sum =
                        Some(RunningMax(api', i) - api'[1].reading)
          /\ mem' = Some(api'[Len(api')].dt)]_vars

\* A cycle on an empty series with a stale time: both fetched readings are
\* imported, with sums 0 and 1, and the time becomes the second reading's.
C11_Witness ==
    /\ ev.op = "poll" /\ ev.branch = "empty" /\ ev.n = 2
    /\ api[1].reading = 0 /\ api[2].reading = 1
    /\ store[api[1].dt].sum = Some(0) /\ store[api[2].dt].sum = Some(1)
    /\ mem = Some(api[2].dt)

\* The call carries the confirmation token and something a series id is
\* resolved from.
ResetConfirmed(data) ==
    /\ data.confirm = "DELETE"
    /\ \/ data.statistic_id # <<>>
       \/ data.entity_id = DeviceSeries
       \/ (data.entity_id = <<>> /\ data.meter_id # <<>>)

\* The series the call names is the device's consumption series.
ResetNamesDevice(data) ==
    \/ data.statistic_id = DeviceSeries
    \/ (data.statistic_id = <<>> /\ data.entity_id = DeviceSeries)
    \/ (data.statistic_id = <<>> /\ data.entity_id = <<>>
        /\ data.meter_id = METER_ID)

\* C20: the reset deletes rows only with the token 'DELETE' and a resolvable
\* series id, otherwise the store is unchanged; when it proceeds every
\* long-term and short-term row of the series is deleted and their total is
\* returned; a failure during deletion leaves the rows as they were.
C20_ResetRequiresConfirmation ==
    [][ev'.op = "reset" =>
          /\ ev'.proceeded = ResetConfirmed(ev'.data)
          /\ ~ResetConfirmed(ev'.data) =>
                 /\ store' = store /\ ev'.short_after = ev'.short
                 /\ ev'.deleted = 0
          /\ (ResetConfirmed(ev'.data) /\ ev'.fails) =>
                 /\ store' = store /\ ev'.short_after = ev'.short
                 /\ ev'.raised
          /\ (ResetConfirmed(ev'.data) /\ ~ev'.fails
              /\ ResetNamesDevice(ev'.data)) =>
                 /\ store' = EmptySeries /\ ev'.short_after = 0
                 /\ ev'.deleted = Cardinality(DOMAIN store) + ev'.short
                 /\ ~ev'.raised]_vars

\* A confirmed reset by meter id that deleted two long-term rows and one
\* short-term row.
C20_Witness ==
    /\ ev.op = "reset" /\ ev.proceeded /\ ~ev.raised
    /\ ev.data.confirm = "DELETE" /\ ev.data.meter_id = METER_ID
    /\ ev.short = 1 /\ ev.deleted = 3
    /\ store = EmptySeries

\* The rows of the audited window, in start order.
AuditWindow ==
    OrderedRows(store, {t \in DOMAIN store :
                            IsNone(call.start_time)
                                \/ t >= Val(call.start_time)})

\* The last non-null sum before row i of the window, none when there is none.
RECURSIVE PreviousSum(_, _)
PreviousSum(rows, i) ==
    IF i <= 1 THEN None
    ELSE IF ~IsNone(rows[i - 1].sum) THEN rows[i - 1].sum
    ELSE PreviousSum(rows, i - 1)

\* Row i of the window has a sum strictly below the previous non-null sum.
IsViolation(rows, i) ==
    /\ ~IsNone(rows[i].sum) /\ ~IsNone(PreviousSum(rows, i))
    /\ Val(rows[i].sum) < Val(PreviousSum(rows, i))

\* C19: the audit returns checked equal to the number of rows of the window
\* and a violations list of exactly the rows whose sum is strictly below the
\* previous non-null sum, each with its previous and current sum, in order.
C19_AuditReportsViolations ==
    (call.fn = "audit" /\ call.done) =>
        LET result == Val(call.result)
            rows == AuditWindow
            bad == SelectSeq([i \in 1..Len(rows) |-> i],
                             LAMBDA i : IsViolation(rows, i))
        IN  /\ ~result.raised
            /\ result.checked = Len(rows)
            /\ Len(result.violations) = Len(bad)
            /\ \A k \in 1..Len(bad) :
                   /\ result.violations[k].start = rows[bad[k]].start
                   /\ result.violations[k].previous_sum
                          = Val(PreviousSum(rows, bad[k]))
                   /\ result.violations[k].current_sum = Val(rows[bad[k]].sum)

-----------------------------------------------------------------------------
(* Properties of the stepwise cycle (SpecSteps). *)

\* The tasks that hold the lock: started and not returned.
InFlight == {i \in DOMAIN call : call[i].pc # "start"}

\* C12: for one device at most one scheduled cycle is in flight at any time;
\* a task that starts while the lock is held returns at once: it resolves no
\* baseline, writes nothing to the two series or the entity, and leaves the
\* set of tasks, so it is never run later (dropped, not queued).
C12_SingleFlight ==
    /\ [](Cardinality(InFlight) <= 1)
    /\ [][ev'.op = "dropped" =>
              /\ UNCHANGED <<store, cost, mem, native>>
              /\ InFlight # {}
              /\ \E i \in DOMAIN call :
                     call[i].pc = "start" /\ call' = Remove(call, i)]_vars

\* A task was dropped while a cycle was between its conversion and its seal.
C12_Witness ==
    /\ ev.op = "dropped"
    /\ \E i \in DOMAIN call : call[i].pc \in {"upsert", "cost", "seal"}

\* C13: when the process stopped after the consumption rows of a cycle were
\* upserted and before its cost rows were, a cycle that completes after the
\* restart on the same fetched history leaves the cost series with the rows
\* the stopped cycle had converted (same start, same sum).
C13_CrashResume ==
    (ev.op = "done" /\ ev.owed # <<>> /\ ev.fetched = ev.owed_fetch) =>
        \A k \in DOMAIN ev.owed :
            /\ ev.owed[k].start \in DOMAIN cost
            /\ cost[ev.owed[k].start].sum = Some(ev.owed[k].sum)

\* The steps a task has finished, in the order the claim fixes, and the step
\* it may run next.
StepsInOrder(t) ==
    \/ t.done = <<>> /\ t.pc = "resolve"
    \/ t.done = <<"resolve">> /\ t.pc = "convert"
    \/ t.done = <<"resolve", "convert">> /\ t.pc = "upsert"
    \/ /\ t.done = <<"resolve", "convert", "upsert">>
       /\ t.pc = IF IsNone(t.price) THEN "seal" ELSE "cost"
    \/ t.done = <<"resolve", "convert", "upsert", "cost">> /\ t.pc = "seal"

\* C14: within one scheduled cycle the steps run in the order baseline
\* resolution, conversion, consumption upsert, cost upsert (when a price is
\* resolved), seal, each after the previous one has finished; the
\* consumption rows and the cost rows of the import are written only by a
\* task that has resolved its baseline and converted.
C14_StepOrder ==
    /\ [](\A i \in InFlight : StepsInOrder(call[i]))
    /\ [][/\ ev'.op = "upsert" =>
                 \E i \in InFlight : call[i].done = <<"resolve", "convert">>
          /\ ev'.op = "cost" =>
                 \E i \in InFlight :
                     call[i].done = <<"resolve", "convert", "upsert">>
          /\ (ev'.op \notin {"upsert", "resolve", "done", "restart"}) =>
                 store' = store
          /\ (ev'.op \notin {"cost", "resolve", "restart"}) =>
                 cost' = cost]_vars

\* A task with a price has upserted both batches and is about to seal; the
\* cost series holds its rows.
C14_Witness ==
    \E i \in InFlight :
        /\ call[i].done = <<"resolve", "convert", "upsert", "cost">>
        /\ call[i].pc = "seal"
        /\ \A k \in DOMAIN call[i].data : call[i].data[k].dt \in DOMAIN cost

-----------------------------------------------------------------------------
(* Properties of the coordinator's reads (SpecReadOne, SpecRead). *)

\* The exception the first attempt of the read raised, "ok" when none.
FirstAttempt == IF call.info.kind # "ok" THEN call.info ELSE call.hist

HistoryReadsBefore == IF call.info.kind # "ok" THEN <<>> ELSE <<DAYS_TO_LOAD>>

EmptyBodySignature(e) ==
    /\ e.kind = "EyeOnWaterAPIError"
    /\ Contains(e.msg, "json_invalid") \/ Contains(e.msg, "EOF while parsing")

\* What the claim says of the first attempt: an authentication error and an
\* API error without the signature fail the cycle with no retry; an API
\* error with the signature is followed by exactly one read of the history,
\* with a look-back of one day.
FirstAttemptHandled ==
    /\ FirstAttempt.kind = "ok" =>
           ev.raised = "none" /\ ev.days = HistoryReadsBefore
    /\ FirstAttempt.kind = "EyeOnWaterAuthError" =>
           ev.raised = "UpdateFailed" /\ ev.days = HistoryReadsBefore
    /\ (FirstAttempt.kind = "EyeOnWaterAPIError"
        /\ ~EmptyBodySignature(FirstAttempt)) =>
           ev.raised = "UpdateFailed" /\ ev.days = HistoryReadsBefore
    /\ EmptyBodySignature(FirstAttempt) =>
           /\ ev.days = Append(HistoryReadsBefore, 1)
           /\ ev.retry = call.fallback

\* C16 as stated: in a polling read of one device an authentication error
\* fails the cycle, an API error with the empty-body signature is retried
\* exactly once with a one-day look-back and every failure of the retry is
\* swallowed, and any other API error fails the cycle.
C16_ReadErrors ==
    call.done =>
        /\ FirstAttemptHandled
        /\ EmptyBodySignature(FirstAttempt) => ev.raised = "none"

\* C16, amended: as stated, except that only an API error of the retry is
\* swallowed; an authentication error of the retry is not caught and fails
\* the cycle.
C16_ReadErrorsAPIRetry ==
    call.done =>
        /\ FirstAttemptHandled
        /\ (EmptyBodySignature(FirstAttempt)
            /\ call.fallback.kind # "EyeOnWaterAuthError") => ev.raised = "none"
        /\ (EmptyBodySignature(FirstAttempt)
            /\ call.fallback.kind = "EyeOnWaterAuthError") =>
               ev.raised = "EyeOnWaterAuthError"

\* The history read failed with the signature, the one-day retry failed with
\* an API error too, and the read returned without raising.
C16_Witness ==
    /\ call.done
    /\ call.info.kind = "ok"
    /\ EmptyBodySignature(call.hist)
    /\ call.fallback.kind = "EyeOnWaterAPIError"
    /\ ev.raised = "none"
    /\ ev.days = <<DAYS_TO_LOAD, FALLBACK_DAYS>>

\* C15: when a refresh ends in which the read of one device raised for an
\* API error without the empty-body signature and the reads of all other
\* devices returned, the cycle of every other device whose history holds
\* data is triggered in that refresh.
C15_FetchFailureIsolated ==
    ev.op = "finish" =>
        \A m \in Meters :
            (/\ call.tasks[m].raised = "UpdateFailed"
             /\ call.tasks[m].first.kind = "EyeOnWaterAPIError"
             /\ \A n \in Meters \ {m} : call.tasks[n].pc = "returned") =>
                \A n \in Meters \ {m} : api[n] = "data" => n \in ev.triggered

-----------------------------------------------------------------------------
(* Properties of the cost conversion (SpecCost). *)

CostDone == call.fn = "cost" /\ call.done

\* One row per reading at its timestamp, the state of every row equal to
\* its sum.
CostRowPerReading(out, data) ==
    /\ Len(out) = Len(data)
    /\ \A i \in 1..Len(data) :
           out[i].start = data[i].dt /\ out[i].state = out[i].sum

\* The sums the raw readings give: the first from the prior cost sum (0 if
\* none) and the prior reading (the first reading if none), each later one
\* from the row before.
RawCostRows(out, data, price, last_cost_sum, last_reading) ==
    LET S0 == IF IsNone(last_cost_sum) THEN 0 ELSE Val(last_cost_sum)
        R0 == IF IsNone(last_reading) THEN data[1].reading
              ELSE Val(last_reading)
    IN  /\ out[1].sum = S0 + (data[1].reading - R0) * price
        /\ \A i \in 2..Len(data) :
               out[i].sum = out[i - 1].sum
                            + (data[i].reading - data[i - 1].reading) * price

CostSumsNonDecreasing(out) ==
    \A i \in 2..Len(out) : out[i].sum >= out[i - 1].sum

\* C17 as stated: for every reading sequence the cost conversion returns one
\* row per reading at its timestamp with state equal to sum, the sums follow
\* sum[i] = sum[i-1] + (reading[i] - reading[i-1]) * price from the prior
\* cost sum and the prior reading, and for a price above 0 they never
\* decrease.
C17_CostProjection ==
    (CostDone /\ call.data # <<>>) =>
        /\ CostRowPerReading(call.out, call.data)
        /\ RawCostRows(call.out, call.data, call.price, call.last_cost_sum,
                       call.last_reading)
        /\ call.price > 0 => CostSumsNonDecreasing(call.out)

\* C17, amended: one row per reading with state equal to sum for every
\* sequence; the sums follow the stated recurrence when the readings never
\* decrease (a backward jump is clamped by the normalisation first); for a
\* price above 0 the sums never decrease from one row to the next.
C17_CostProjectionNonDecreasing ==
    CostDone =>
        /\ CostRowPerReading(call.out, call.data)
        /\ (call.data # <<>> /\ NonDecreasing(call.data)) =>
               RawCostRows(call.out, call.data, call.price,
                           call.last_cost_sum, call.last_reading)
        /\ call.price > 0 => CostSumsNonDecreasing(call.out)

\* Three rising readings priced at 2 from a prior cost sum and a prior
\* reading below the first one.
C17_Witness ==
    /\ CostDone /\ Len(call.data) = 3 /\ call.price = 2
    /\ ~IsNone(call.last_cost_sum) /\ Val(call.last_cost_sum) > 0
    /\ ~IsNone(call.last_reading)
    /\ Val(call.last_reading) < call.data[1].reading
    /\ call.data[1].reading < call.data[2].reading
    /\ call.out[3].sum = Val(call.last_cost_sum)
                         + 2 * (call.data[3].reading - Val(call.last_reading))
    /\ call.out[3].state = call.out[3].sum

\* The tasks that have resolved their price: past the conversion, with
\* readings to import.
Importing == {i \in InFlight : call[i].pc \in {"upsert", "cost", "seal"}}

\* The cost rows of the import are upserted only for a price entity that is
\* configured and whose state gave a price above 0; without such a price the
\* consumption rows are upserted and the cost upsert is skipped.
CostImportNeedsPrice ==
    \A i \in Importing :
        LET t == call[i]
            priced == price_entity /\ ~IsNone(t.price) /\ Val(t.price) > 0
        IN  /\ (t.pc = "cost" \/ Contains(t.done, "cost")) => priced
            /\ (t.pc = "seal" /\ ~priced) =>
                   Contains(t.done, "upsert") /\ ~Contains(t.done, "cost")

C21_DistinctSeriesIds ==
    (call.done /\ call.meter_id[1] # call.meter_id[2]) =>
        /\ ev.statistic_id[1] # ev.statistic_id[2]
        /\ ev.cost_stat_id[1] # ev.cost_stat_id[2]
        /\ {ev.statistic_id[1], ev.cost_stat_id[1]}
               \cap {ev.statistic_id[2], ev.cost_stat_id[2]} = {}

(* Properties of the coroutines outside the lock (SpecInterleave). *)

\* The steps of the startup pass and of the manual import that read or write
\* the series.
OutsideOps == {"startup", "manual_read", "manual_upsert"}

\* The steps of a scheduled cycle that read or write the series.
CycleOps == {"resolve", "convert", "upsert", "cost", "done"}

\* C22: while a scheduled cycle of the device holds the lock, neither the
\* startup repair pass nor the manual historical import reads or writes the
\* device's series, and no cycle step runs between the store read and the
\* store write of a manual import.
C22_OnlyLockedCycleWrites ==
    [][/\ ev'.op \in OutsideOps => ~import_lock_locked(call)
       /\ ev'.op \in CycleOps =>
              \A i \in DOMAIN call : call[i].pc # "manual_upsert"]_vars

(* Properties of one baseline resolution (SpecResolve). *)

\* The resolution ran with the store's last row newer than the in-memory
\* time.
StoreAhead ==
    /\ ev.op = "resolve"
    /\ ~IsNone(ev.pre.mem) /\ DOMAIN ev.pre.store # {}
    /\ LastStart(ev.pre.store) > Val(ev.pre.mem)

\* (state, sum) of the last row of the series strictly before T + 1 hour,
\* both absent when there is no such row.
Trusted(series, T) ==
    LET before == {t \in DOMAIN series : t < T + HOUR}
    IN  IF before = {} THEN <<None, None>>
        ELSE LET t == CHOOSE t \in before : \A u \in before : u <= t
             IN  <<series[t].state, series[t].sum>>

\* The hours in (T, tip].
HoursAfter(T, tip) == {T + k * HOUR : k \in 1..((tip - T) \div HOUR)}

\* The store-ahead branch wrote carry-forward rows of the trusted row for
\* every hour in (T, tip] and nothing else, and moved the time to the tip.
AheadRepaired(T, tip, trusted) ==
    /\ DOMAIN ev.b.w.store = DOMAIN ev.pre.store \cup HoursAfter(T, tip)
    /\ \A h \in DOMAIN ev.b.w.store :
           IF h \in HoursAfter(T, tip)
           THEN /\ ev.b.w.store[h].state = trusted[1]
                /\ ev.b.w.store[h].sum = trusted[2]
           ELSE ev.b.w.store[h] = ev.pre.store[h]
    /\ ev.b.w.mem = Some(tip)
    /\ ev.b.elt = Some(tip)

\* The store-ahead branch wrote nothing and kept the time.
AheadKept(T) ==
    /\ ev.b.w = ev.pre
    /\ ev.b.elt = Some(T)

\* C23 as stated: in the store-ahead branch the trusted (state, sum) is the
\* last row strictly before T + 1 hour; when the latest sum is missing or
\* differs from the trusted sum by more than 0.01 the rows of (T, tip] are
\* carried forward from the trusted row and the time becomes the tip;
\* otherwise nothing is written and T is returned with the trusted state and
\* sum.
C23_StoreAhead ==
    StoreAhead =>
        LET T == Val(ev.pre.mem)
            tip == LastStart(ev.pre.store)
            latest == ev.pre.store[tip].sum
            trusted == Trusted(ev.pre.store, T)
            agree == /\ ~IsNone(latest) /\ ~IsNone(trusted[2])
                     /\ ~Differs(Val(latest), Val(trusted[2]))
        IN  IF agree
            THEN /\ AheadKept(T)
                 /\ ev.b.reading = trusted[1] /\ ev.b.sum = trusted[2]
            ELSE AheadRepaired(T, tip, trusted)

\* C23, with the case of a trusted row that is absent or lacks its state or
\* its sum: then nothing is written, T is returned with no state and with
\* the latest sum.
C23_StoreAheadTrustedRow ==
    StoreAhead =>
        LET T == Val(ev.pre.mem)
            tip == LastStart(ev.pre.store)
            latest == ev.pre.store[tip].sum
            trusted == Trusted(ev.pre.store, T)
        IN  IF IsNone(trusted[1]) \/ IsNone(trusted[2])
            THEN /\ AheadKept(T)
                 /\ ev.b.reading = None /\ ev.b.sum = latest
            ELSE IF IsNone(latest) \/ Differs(Val(latest), Val(trusted[2]))
            THEN AheadRepaired(T, tip, trusted)
            ELSE /\ AheadKept(T)
                 /\ ev.b.reading = trusted[1] /\ ev.b.sum = trusted[2]

\* The store held rows at 00:00 (sum 1), 01:00 and 02:00 (sum 0) with the
\* time at 00:00; the branch carried (state, sum 1) over 01:00 and 02:00.
C23_Witness ==
    /\ StoreAhead /\ ev.b.repaired
    /\ ev.pre.mem = Some(0) /\ DOMAIN ev.pre.store = {0, HOUR, 2 * HOUR}
    /\ ev.pre.store[0].sum = Some(MaxMeter)
    /\ ev.pre.store[HOUR].sum = Some(0) /\ ev.pre.store[2 * HOUR].sum = Some(0)
    /\ ev.b.w.store[HOUR].sum = Some(MaxMeter)
    /\ ev.b.w.store[2 * HOUR].sum = Some(MaxMeter)
    /\ ev.b.elt = Some(2 * HOUR)

\* Every row of the series has a state and a sum.
Complete(series) ==
    \A t \in DOMAIN series : ~IsNone(series[t].state) /\ ~IsNone(series[t].sum)

\* The resolution ran its monotonicity sweep on a series of complete rows:
\* the series as the branches left it has a last row.
SweepRan ==
    /\ ev.op = "resolve"
    /\ Complete(ev.pre.store)
    /\ DOMAIN ev.b.w.store # {}

\* The rows of the series that hold its greatest sum.
MaxSumRows(series) ==
    {t \in DOMAIN series :
         \A u \in DOMAIN series : Val(series[u].sum) <= Val(series[t].sum)}

\* The sweep wrote, over every hour in (anchor, last], the state and sum it
\* derives from the anchor row and the live reading, and nothing else, and
\* moved the time to the last row's start.
SweepRepaired(series, anchor, last, live) ==
    LET carry_state == IF IsNone(live) THEN series[anchor].state ELSE live
        carry_sum == IF IsNone(live) THEN series[anchor].sum
                     ELSE Some(Val(series[anchor].sum)
                                   + (Val(live) - Val(series[anchor].state)))
    IN  /\ DOMAIN ev.r.w.store = DOMAIN series \cup HoursAfter(anchor, last)
        /\ \A h \in DOMAIN ev.r.w.store :
               IF h \in HoursAfter(anchor, last)
               THEN /\ ev.r.w.store[h].state = carry_state
                    /\ ev.r.w.store[h].sum = carry_sum
               ELSE ev.r.w.store[h] = series[h]
        /\ ev.r.elt = Some(last) /\ ev.r.w.mem = Some(last)
        /\ ev.r.reading = carry_state /\ ev.r.sum = carry_sum

CycleImported == ev.op = "cycle" /\ ev.out.imported # <<>>

\* The last row the cycle imported.
ImportTip == ev.out.imported[Len(ev.out.imported)]

\* The series after the upsert of the imported rows into the series the
\* resolution left, before any seal row.
AfterUpsert ==
    [h \in DOMAIN ev.r.w.store \cup Starts(ev.out.imported) |->
        IF h \in Starts(ev.out.imported)
        THEN LET row == ev.out.imported[LastIndexAt(ev.out.imported, h)]
             IN  [state |-> Some(row.state), sum |-> Some(row.sum)]
        ELSE [state |-> ev.r.w.store[h].state, sum |-> ev.r.w.store[h].sum]]

\* The state and the sum of every row of a series.
Values(series) ==
    [h \in DOMAIN series |-> [state |-> series[h].state, sum |-> series[h].sum]]

\* C25: after a cycle imported rows with tip (t, state, sum), when the
\* store's last row is later than t every hourly row in (t, old tip] holds
\* the tip's state and sum and no row after t has another sum; when the
\* last row is not later than t no seal row is written.
C25_Sealing ==
    CycleImported =>
        LET t == ImportTip.start
            old_tip == LastStart(AfterUpsert)
        IN  IF old_tip > t
            THEN /\ ev.out.sealed = Cardinality(HoursAfter(t, old_tip))
                 /\ DOMAIN store = DOMAIN AfterUpsert \cup HoursAfter(t, old_tip)
                 /\ \A h \in HoursAfter(t, old_tip) :
                        /\ store[h].state = Some(ImportTip.state)
                        /\ store[h].sum = Some(ImportTip.sum)
                 /\ \A h \in DOMAIN store :
                        /\ h > t => store[h].sum = Some(ImportTip.sum)
                        /\ h <= t => Values(store)[h] = AfterUpsert[h]
            ELSE /\ ev.out.sealed = 0
                 /\ Values(store) = AfterUpsert

\* The cycle imported the reading of 00:00 with sum 0 under rows at 01:00
\* and 02:00 of a greater sum, and sealed both with sum 0.
C25_Witness ==
    /\ CycleImported /\ ev.out.sealed = 2
    /\ ImportTip.start = 0 /\ ImportTip.sum = 0
    /\ DOMAIN ev.pre.store = {HOUR, 2 * HOUR}
    /\ ev.pre.store[HOUR].sum = Some(MaxMeter)
    /\ ev.pre.store[2 * HOUR].sum = Some(MaxMeter)
    /\ store[HOUR].sum = Some(0) /\ store[2 * HOUR].sum = Some(0)

\* The newest fetched reading of the cycle.
NewestFetched == ev.data[Len(ev.data)]

\* C26: when the newest fetched reading is strictly older than the resolved
\* baseline time (so no fetched reading is newer than it), the cycle resets
\* the baseline, imports every fetched reading in that same cycle and the
\* rows at the fetched hours become the imported rows; when the newest
\* fetched reading is at the baseline time nothing is reset or imported.
C26_BaselineOvershoot ==
    (ev.op = "cycle" /\ ev.data # <<>> /\ ~IsNone(ev.r.elt)) =>
        /\ NewestFetched.dt < Val(ev.r.elt) =>
               /\ ev.out.trace.overshoot
               /\ Len(ev.out.imported) = Len(ev.data)
               /\ \A i \in DOMAIN ev.data :
                      /\ ev.out.imported[i].start = ev.data[i].dt
                      /\ store[ev.data[i].dt].by = "import"
                      /\ store[ev.data[i].dt].state = Some(ev.out.imported[i].state)
                      /\ store[ev.data[i].dt].sum = Some(ev.out.imported[i].sum)
               /\ ev.out.imported = convert_statistic_data(ev.data, ev.out.base[2], ev.out.base[1])
               /\ mem = Some(NewestFetched.dt)
        /\ NewestFetched.dt = Val(ev.r.elt) =>
               /\ ~ev.out.trace.overshoot
               /\ ev.out.imported = <<>>
               /\ store = ev.r.w.store /\ mem = ev.r.w.mem

\* The resolved baseline was 02:00 over carried rows and the fetched history
\* ended at 01:00: both readings were imported over the rows of 00:00 and
\* 01:00.
C26_Witness ==
    /\ ev.op = "cycle" /\ ev.out.trace.overshoot
    /\ ev.r.elt = Some(2 * HOUR)
    /\ Len(ev.data) = 2 /\ NewestFetched.dt = HOUR
    /\ NewestFetched.reading = MaxMeter /\ ev.data[1].reading = 0
    /\ DOMAIN ev.pre.store = {0, HOUR, 2 * HOUR}
    /\ store[HOUR].by = "import" /\ store[HOUR].state = Some(MaxMeter)
    /\ mem = Some(HOUR)

(* Properties of the cycles under a fair event loop (SpecLive). *)

\* C27: a held lock is always released, a task that was created always
\* ends, a cycle that raises releases the lock in that step, a task is
\* dropped only while another holds the lock, and a task that acquires the
\* lock begins with baseline resolution.
C27_LockAlwaysReleased ==
    /\ import_lock_locked(call) ~> ~import_lock_locked(call)
    /\ (call # <<>>) ~> (call = <<>>)
    /\ [][/\ ev'.op = "raised" => ~import_lock_locked(call')
          /\ ev'.op = "dropped" => import_lock_locked(call)
          /\ ev'.op = "acquired" =>
                 /\ ~import_lock_locked(call)
                 /\ \E i \in DOMAIN call :
                        call[i].pc = "start" /\ call'[i].pc = "resolve"]_vars

\* A cycle raised after its upsert, and a later task has acquired the lock.
C27_Witness ==
    /\ ev.op = "acquired" /\ ev.raised = 1
    /\ store # EmptySeries /\ IsNone(mem)
    /\ import_lock_locked(call)

\* The cycle ran with the store's last row older than the in-memory time, or
\* with an empty in-memory time over a store that has rows.
StoreLags ==
    /\ ev.op = "cycle" /\ DOMAIN ev.pre.store # {}
    /\ \/ IsNone(ev.pre.mem)
       \/ LastStart(ev.pre.store) < Val(ev.pre.mem)

\* C28: when the store lags the in-memory time, the resolution returns the
\* store's last row start as the baseline time and keeps it as the
\* in-memory time, and every fetched reading newer than that row is imported
\* in the cycle: its row is among the imported rows and in the store.
C28_StoreLags ==
    StoreLags =>
        LET last == LastStart(ev.pre.store)
        IN  /\ ev.r.branch = "lag"
            /\ ev.r.elt = Some(last) /\ ev.r.w.mem = Some(last)
            /\ \A i \in DOMAIN ev.data :
                   ev.data[i].dt > last =>
                       /\ \E j \in DOMAIN ev.out.imported :
                              /\ ev.out.imported[j].start = ev.data[i].dt
                              /\ store[ev.data[i].dt].state = Some(ev.out.imported[j].state)
                              /\ store[ev.data[i].dt].sum = Some(ev.out.imported[j].sum)
                       /\ store[ev.data[i].dt].by = "import"

\* The in-memory time was 02:00 over a store ending at 00:00: the readings
\* of 01:00 and 02:00 were both imported.
C28_Witness ==
    /\ StoreLags /\ ev.pre.mem = Some(2 * HOUR)
    /\ DOMAIN ev.pre.store = {0}
    /\ Len(ev.data) = 2 /\ ev.data[1].dt = HOUR
    /\ Len(ev.out.imported) = 2
    /\ DOMAIN store = {0, HOUR, 2 * HOUR}
    /\ mem = Some(2 * HOUR)

(* Properties of the cost repair of a baseline resolution (SpecMirror). *)

\* The resolution repaired the consumption series.
ConsumptionRepaired == ev.r.ahead \/ ev.r.mono

\* The cost series after the call is the one before it with, over every hour
\* after the anchor up to `last`, rows whose state and sum are the anchor's
\* sum.
CostCarried(anchor, last) ==
    /\ DOMAIN cost = DOMAIN ev.pre.cost \cup HoursAfter(anchor, last)
    /\ \A h \in DOMAIN cost :
           IF h \in HoursAfter(anchor, last)
           THEN /\ cost[h].state = ev.pre.cost[anchor].sum
                /\ cost[h].sum = ev.pre.cost[anchor].sum
           ELSE cost[h] = ev.pre.cost[h]

\* C29: a baseline resolution writes the cost series only when it repaired
\* the consumption series and a price source is configured; what it writes
\* is carry-forward rows from a row of the cost series with its greatest sum
\* through the last row start of the consumption series, state and sum both
\* that greatest cost sum; without a consumption repair the cost series is
\* not written.
C29_CostRepairMirrors ==
    ev.op = "resolve" =>
        /\ cost # ev.pre.cost => (ConsumptionRepaired /\ price_entity)
        /\ ~ConsumptionRepaired => cost = ev.pre.cost
        /\ (ConsumptionRepaired /\ price_entity /\ DOMAIN ev.pre.cost # {}) =>
               \/ /\ \A t \in DOMAIN ev.pre.cost :
                         EPS_SCALE * Val(ev.pre.cost[t].sum) <= 1
                  /\ cost = ev.pre.cost
               \/ \E a \in MaxSumRows(ev.pre.cost) :
                      /\ EPS_SCALE * Val(ev.pre.cost[a].sum) > 1
                      /\ CostCarried(a, LastStart(ev.pre.store))

\* The consumption series was repaired through 02:00 and the cost series
\* held its greatest sum at 00:00: the cost rows of 01:00 and 02:00 hold
\* that sum as state and sum.
C29_Witness ==
    /\ ev.op = "resolve" /\ ConsumptionRepaired /\ price_entity
    /\ LastStart(ev.pre.store) = 2 * HOUR
    /\ DOMAIN ev.pre.cost = {0, HOUR}
    /\ ev.pre.cost[0].sum = Some(MaxMeter) /\ ev.pre.cost[HOUR].sum = Some(0)
    /\ DOMAIN cost = {0, HOUR, 2 * HOUR}
    /\ cost[HOUR].sum = Some(MaxMeter) /\ cost[HOUR].state = Some(MaxMeter)
    /\ cost[2 * HOUR].sum = Some(MaxMeter)

\* sum - state of a row equals sum - state of the (state, sum) it was
\* derived from.
Conserves(state, sum, base) == sum - state = Val(base[2]) - Val(base[1])

\* The (state, sum) a row of the series holds.
RowValues(series, h) == <<series[h].state, series[h].sum>>

\* The base of the cycle's import: the last row of the resolved series
\* strictly before the first imported reading when the import overlaps the
\* series, the last row of the series otherwise.
ImportBase ==
    LET series == ev.r.w.store
        first == ev.out.imported[1].start
    IN  IF DOMAIN series = {} THEN <<None, None>>
        ELSE IF first <= LastStart(series) THEN Trusted(series, first - HOUR)
        ELSE RowValues(series, LastStart(series))

\* C30: every row a cycle writes to the consumption series keeps sum - state
\* of the row it was derived from: the store-ahead carry rows that of the
\* trusted row, the monotonicity carry rows that of the max-sum anchor, the
\* imported rows that of the continuation or backfill base, the seal rows
\* that of the imported tip, whenever that row has a state and a sum.
C30_ConsumptionConserved ==
    ev.op = "cycle" =>
        /\ ev.r.ahead =>
               LET T == Val(ev.pre.mem)
                   trusted == Trusted(ev.pre.store, T)
               IN  \A h \in HoursAfter(T, LastStart(ev.pre.store)) :
                       /\ ev.b.w.store[h].by = "carry"
                       /\ Conserves(Val(ev.b.w.store[h].state),
                                    Val(ev.b.w.store[h].sum), trusted)
        /\ ev.r.mono =>
               LET a == Val(ev.r.anchor)
               IN  \A h \in HoursAfter(a, LastStart(ev.pre.store)) :
                       /\ ev.r.w.store[h].by = "carry"
                       /\ Conserves(Val(ev.r.w.store[h].state),
                                    Val(ev.r.w.store[h].sum),
                                    RowValues(ev.b.w.store, a))
        /\ ev.out.imported # <<>> =>
               /\ ev.out.base = ImportBase
               /\ ~IsNone(ImportBase[1]) /\ ~IsNone(ImportBase[2]) =>
                      \A j \in DOMAIN ev.out.imported :
                          Conserves(ev.out.imported[j].state,
                                    ev.out.imported[j].sum, ImportBase)
        /\ ev.out.sealed > 0 =>
               \A h \in HoursAfter(ImportTip.start, LastStart(AfterUpsert)) :
                   /\ store[h].by = "carry"
                   /\ Conserves(Val(store[h].state), Val(store[h].sum),
                                <<Some(ImportTip.state), Some(ImportTip.sum)>>)

\* The cycle imported the readings 0 and 1 of 01:00 and 02:00 from the base
\* (state 1, sum 0) at 00:00: the rows hold sums -1 and 0.
C30_Witness ==
    /\ ev.op = "cycle" /\ Len(ev.out.imported) = 2
    /\ ev.out.base = <<Some(MaxMeter), Some(0)>>
    /\ ev.out.imported[1].state = 0 /\ ev.out.imported[1].sum = 0 - MaxMeter
    /\ ev.out.imported[2].state = MaxMeter /\ ev.out.imported[2].sum = 0
    /\ store[2 * HOUR].sum = Some(0)

(* Properties of consecutive baseline resolutions (SpecTwice). *)

\* C31: the resolution that follows a monotonicity repair, with no write to
\* the store in between, finds no violation, repairs nothing and writes no
\* row.
C31_RepairConverges ==
    (ev.op = "resolve" /\ ~IsNone(ev.before) /\ Val(ev.before).mono) =>
        /\ ~ev.r.mono /\ ~ev.r.ahead
        /\ store = ev.pre.store

(* Properties of consecutive cycles (SpecAgain). *)

\* C32: the cycle that follows an overshoot-recovery cycle, with the same
\* fetched readings and no other write to the store, repairs nothing, does
\* not reset the baseline, imports nothing and writes nothing to the store.
C32_NoOscillation ==
    (ev.op = "cycle" /\ ~IsNone(ev.before) /\ Val(ev.before).overshoot) =>
        /\ ~ev.out.trace.ahead /\ ~ev.out.trace.mono
        /\ ~ev.out.trace.overshoot
        /\ ev.out.imported = <<>> /\ ev.out.sealed = 0
        /\ store = ev.pre.store /\ cost = ev.pre.cost

(* Properties of one cycle with a price entity (SpecQuiet). *)

\* The store's last row starts at the in-memory time and no stored sum
\* exceeds the latest sum by more than 0.01.
InStep(w) ==
    /\ DOMAIN w.store # {}
    /\ w.mem = Some(LastStart(w.store))
    /\ \A t \in DOMAIN w.store :
           EPS_SCALE * Val(w.store[t].sum)
               <= EPS_SCALE * Val(w.store[LastStart(w.store)].sum) + 1

NothingWritten ==
    /\ store = ev.pre.store /\ cost = ev.pre.cost /\ mem = ev.pre.mem
    /\ ev.out.imported = <<>> /\ ev.out.sealed = 0

\* C33 as stated: a cycle on a store in step with memory, with no fetched
\* reading newer than the in-memory time, writes no row to either series and
\* keeps the in-memory time.
C33_Quiescence ==
    (/\ ev.op = "cycle" /\ InStep(ev.pre)
     /\ \A i \in DOMAIN ev.data : ev.data[i].dt <= Val(ev.pre.mem))
        => NothingWritten

\* C33, amended: the same where the fetched history is empty or its newest
\* reading is at the in-memory time.
C33_QuiescenceAtTip ==
    (/\ ev.op = "cycle" /\ InStep(ev.pre)
     /\ \/ ev.data = <<>>
        \/ ev.data[Len(ev.data)].dt = Val(ev.pre.mem))
        => NothingWritten

C33_Witness ==
    /\ ev.op = "cycle" /\ InStep(ev.pre)
    /\ ev.pre.mem = Some(HOUR)
    /\ DOMAIN ev.pre.store = {0, HOUR}
    /\ DOMAIN ev.pre.cost = {0}
    /\ ev.data = <<DataPoint(0, 0), DataPoint(HOUR, MaxMeter)>>
    /\ NothingWritten

(* Properties of the repeated manual import (SpecRerun). *)

\* C34: the second run of the manual import with the same fetched readings
\* leaves the consumption series with exactly the rows (start, state, sum)
\* the first run left.
C34_ImportIdempotent ==
    (ev.op = "manual" /\ ev.run = MaxRuns) => Values(store) = Values(ev.first)

\* The cycle had no reading to import.
NoNewData == ev.op = "cycle" /\ ev.out.imported = <<>>

Resynced == ~IsNone(ev.r.reading) /\ ev.pre.native # ev.r.reading

\* C35: in a cycle with no reading to import, the cached display value
\* becomes the resolved baseline reading when that is present and differs
\* from it, and the entity is available; otherwise the cached value is
\* unchanged.  Either way the cycle upserts no imported row after the
\* resolution, and the import of no readings returns none.
C35_NoNewDataResync ==
    NoNewData =>
        /\ IF Resynced THEN native = ev.r.reading /\ ev.out.available
                       ELSE native = ev.pre.native
        /\ store = ev.r.w.store /\ cost = ev.r.w.cost
        /\ ev.out.sealed = 0
        /\ IsNone(centralized_import_statistics(store, cost, <<>>, None).result)

C35_Witness ==
    /\ NoNewData /\ Resynced
    /\ ev.pre.native = Some(MaxMeter) /\ native = Some(0)
    /\ ev.data # <<>>

\* C36: at the end of a scheduled cycle the in-memory last-imported time is
\* empty or not later than the start of the store's last consumption row.
C36_MemoryNotPastStore ==
    ev.op = "cycle" =>
        \/ IsNone(mem)
        \/ DOMAIN store # {} /\ Val(mem) <= LastStart(store)

C36_Witness ==
    /\ ev.op = "cycle"
    /\ ev.pre.mem = Some(MaxSlot * HOUR)
    /\ DOMAIN ev.pre.store = {0}
    /\ ev.data = <<DataPoint(0, 0), DataPoint(HOUR, MaxMeter)>>
    /\ mem = Some(HOUR) /\ LastStart(store) = HOUR

(* Properties of the manual import over the devices (SpecBatch). *)

Fetched(meter) == Raised(api[meter]) = "ok" /\ api[meter].data # <<>>

LoopDone == call.fn = "manual" /\ call.idx > Len(BatchMeters)

\* C37: no API or authentication error of a device leaves the loop; the
\* iteration of a device whose read raised one, or returned no reading,
\* writes nothing and starts no purge; and when the loop is done every
\* device with readings was imported and no other device's series changed.
C37_EveryDeviceInTurn ==
    /\ call.fn = "manual" => ~call.raised
    /\ (ev.op = "import" /\ ev.outcome \in {"caught", "skipped"}) =>
           /\ store = ev.pre.store /\ cost = ev.pre.cost
           /\ call.pc = "fetch"
    /\ LoopDone =>
           \A i \in DOMAIN BatchMeters :
               LET meter == BatchMeters[i]
               IN  IF Fetched(meter) THEN meter \in call.imported
                   ELSE /\ store[meter] = call.start.store[meter]
                        /\ cost[meter] = call.start.cost[meter]

C37_Witness ==
    /\ LoopDone
    /\ api[BatchMeters[1]].hist = "EyeOnWaterAuthError"
    /\ Fetched(BatchMeters[2])
    /\ BatchMeters[2] \in call.imported
    /\ store[BatchMeters[2]] # call.start.store[BatchMeters[2]]

\* The rows of the series that start at or before T.
UpTo(series, T) == [t \in {u \in DOMAIN series : u <= T} |-> series[t]]

LastImportDt(meter) == api[meter].data[Len(api[meter].data)].dt

FilterDone == call.fn = "filter" /\ call.done

\* The positions of the input that are strictly after the cutoff (all of
\* them when there is no cutoff).
Newer ==
    {i \in DOMAIN call.data :
         \/ IsNone(call.last_imported_time)
         \/ call.data[i].dt > Val(call.last_imported_time)}

\* C39: the result holds exactly the readings strictly after the cutoff, one
\* for each, in the order of the input; with no cutoff it is the input, and
\* for an empty input it is empty.
C39_FilterNewer ==
    FilterDone =>
        /\ Len(call.out) = Cardinality(Newer)
        /\ \A k \in DOMAIN call.out : \E i \in Newer : call.out[k] = call.data[i]
        /\ \A k \in DOMAIN call.out : \A l \in DOMAIN call.out :
               k < l => call.out[k].dt < call.out[l].dt
        /\ IsNone(call.last_imported_time) => call.out = call.data
        /\ call.data = <<>> => call.out = <<>>

C39_Witness ==
    /\ FilterDone
    /\ Len(call.data) = MaxLen
    /\ call.last_imported_time = Some(call.data[1].dt)
    /\ call.out = SubSeq(call.data, 2, MaxLen)

(* Properties of resolve_statistic_id (SpecResolveId). *)

ResolveIdDone == call.fn = "resolve_statistic_id" /\ call.done

Given(id) == id # <<>>

\* One character of a meter id as the series id holds it: lower case, and
\* an underscore for anything that is not a letter, a digit or an underscore.
Normal(c) == CASE c = "A" -> "a" [] c = "-" -> "_" [] OTHER -> c

\* C40: a given statistic_id is returned as is; otherwise a given entity_id
\* is returned when it starts with the prefix and yields none when it does
\* not, whatever the meter_id; otherwise a given meter_id yields the prefix
\* followed by the normalised meter id; with nothing given the result is
\* none.
C40_ResolvePriority ==
    ResolveIdDone =>
        /\ Given(call.statistic_id) => call.out = call.statistic_id
        /\ (~Given(call.statistic_id) /\ Given(call.entity_id)) =>
               call.out = IF call.entity_id[1] = ENTITY_PREFIX
                          THEN call.entity_id ELSE <<>>
        /\ (~Given(call.statistic_id) /\ ~Given(call.entity_id)
                /\ Given(call.meter_id)) =>
               /\ Len(call.out) = Len(call.meter_id) + 1
               /\ call.out[1] = ENTITY_PREFIX
               /\ \A i \in DOMAIN call.meter_id :
                      call.out[i + 1] = Normal(call.meter_id[i])
        /\ (~Given(call.statistic_id) /\ ~Given(call.entity_id)
                /\ ~Given(call.meter_id)) => call.out = <<>>

C40_Witness ==
    /\ ResolveIdDone
    /\ ~Given(call.statistic_id)
    /\ call.entity_id = <<"sensor.other_sensor">>
    /\ call.meter_id = <<"A", "-">>
    /\ call.out = <<>>

====
